---- MODULE Spec2Model ----
(***************************************************************************)
(* Settings loader / merger of the terminal settings model:                *)
(* SettingsLoader (CascadiaSettingsSerialization.cpp), the CascadiaSettings *)
(* container (CascadiaSettings.cpp) and GlobalAppSettings.                  *)
(*                                                                         *)
(* Profiles and global-settings objects live in two heaps (sequences of    *)
(* records addressed by their index), so that object identity, shared      *)
(* parents and in-place mutation are explicit.                             *)
(***************************************************************************)
EXTENDS Integers, Sequences, FiniteSets, TLC

VARIABLES
    env,               \* the inputs of one load: entry point, JSON documents, generator and fragment output
    pc,                \* the next stage of the load
    heap,              \* profile objects
    gheap,             \* GlobalAppSettings objects
    inboxSettings,     \* SettingsLoader::inboxSettings
    userSettings,      \* SettingsLoader::userSettings
    warnings,          \* SettingsLoader::warnings
    ignoredNamespaces, \* SettingsLoader::ignoredNamespaces
    userProfileCount,  \* SettingsLoader::userProfileCount
    appState,          \* ApplicationState::GeneratedProfiles (persisted GUID set)
    settings,          \* the CascadiaSettings object the load produced
    thrown,            \* the exception [type, error] that left the entry point
    written,           \* whether WriteSettingsToDisk has written settings.json
    copied,            \* the CascadiaSettings object made by Copy()
    previous           \* the inputs and the result of the load before this one

vars == << env, pc, heap, gheap, inboxSettings, userSettings, warnings,
           ignoredNamespaces, userProfileCount, appState, settings, thrown, written, copied,
           previous >>

(***************************************************************************)
(* Values.  An optional value is a sequence of length 0 or 1.              *)
(***************************************************************************)
None == << >>
Some(v) == << v >>

Range(seq) == {seq[k] : k \in 1..Len(seq)}

Guids == {"g1", "g2"}
NilGuid == "nil"

\* Strings are sequences of tokens; a GUID string is "{" guid "}".
EmptyStr == << >>
NameA == << "A" >>
NameB == << "B" >>
DefaultName == << "Default" >>
CommandPromptDisplayName == << "CommandPrompt" >>
PreferredPowershellProfileName == NameB
BraceName == << "{", "zz", "}" >>

DEFAULT_WINDOWS_POWERSHELL_GUID == "g1"
DEFAULT_COMMAND_PROMPT_GUID == "g2"

GuidToString(g) == << "{", g, "}" >>

\* name.size() == 38 && name[0] == L'{'
LooksLikeGuid(s) == Len(s) = 3 /\ s[1] = "{"

\* Utils::GuidFromString succeeds only on a well-formed GUID string.
GuidStringParses(s) == LooksLikeGuid(s) /\ s[2] \in Guids \cup {"g3", NilGuid} /\ s[3] = "}"
GuidFromString(s) == s[2]

\* Profile::_GenerateGuidForProfile: the GUID derived from the name.
GenerateGuidForProfile(name) ==
    IF name = NameA THEN "g1" ELSE IF name = NameB THEN "g2" ELSE "g3"

WarnDuplicateProfile == "DuplicateProfile"
WarnMissingDefaultProfile == "MissingDefaultProfile"
WarnUnknownColorScheme == "UnknownColorScheme"
WarnFailedToWriteToSettings == "FailedToWriteToSettings"

ErrNoProfiles == "NoProfiles"
ErrAllProfilesHidden == "AllProfilesHidden"

(***************************************************************************)
(* Inheritance graph (IInheritable).                                       *)
(***************************************************************************)
\* The value a setting has when neither the object nor an ancestor sets it.
GlobalDefault(f) ==
    CASE f = "name" -> DefaultName
      [] f = "hidden" -> FALSE
      [] f = "F" -> "default"
      [] f = "scheme" -> "Campbell"
      [] OTHER -> NilGuid

RECURSIVE Lookup(_, _, _)
RECURSIVE LookupInParents(_, _, _)

\* The explicit value of field f on object id, else the value of the first
\* parent, in list order, that yields one; None when nobody sets it.
Lookup(h, id, f) ==
    IF h[id][f] # None THEN h[id][f] ELSE LookupInParents(h, h[id].parents, f)

RECURSIVE LookupInParentsLast(_, _, _)
\* A resolution in which a later parent overrides an earlier one.
LookupInParentsLast(h, ps, f) ==
    IF ps = << >> THEN None
    ELSE IF LookupInParentsLast(h, Tail(ps), f) # None
    THEN LookupInParentsLast(h, Tail(ps), f)
    ELSE Lookup(h, Head(ps), f)

LookupInParents(h, ps, f) ==
    IF ps = << >> THEN None
    ELSE IF Lookup(h, Head(ps), f) # None THEN Lookup(h, Head(ps), f)
    ELSE LookupInParents(h, Tail(ps), f)

\* An optional value, or d when there is none.
ValueOr(r, d) == IF r # None THEN r[1] ELSE d

Resolved(h, id, f) == ValueOr(Lookup(h, id, f), GlobalDefault(f))

HasField(h, id, f) == h[id][f] # None

Name(h, id) == Resolved(h, id, "name")
Hidden(h, id) == Resolved(h, id, "hidden")

Guid(h, id) ==
    IF Lookup(h, id, "guid") # None THEN Lookup(h, id, "guid")[1]
    ELSE GenerateGuidForProfile(Name(h, id))

RECURSIVE Owner(_, _, _)
RECURSIVE OwnerInParents(_, _, _)

\* The object whose explicit value of field f object id resolves to: id
\* itself, else the first parent, in list order, that has one; 0 if none.
Owner(h, id, f) ==
    IF h[id][f] # None THEN id ELSE OwnerInParents(h, h[id].parents, f)

OwnerInParents(h, ps, f) ==
    IF ps = << >> THEN 0
    ELSE IF Owner(h, Head(ps), f) # 0 THEN Owner(h, Head(ps), f)
    ELSE OwnerInParents(h, Tail(ps), f)

\* profile.DefaultAppearance().ColorSchemeName()
ColorSchemeName(h, id) == Resolved(h, id, "scheme")

\* profile.UnfocusedAppearance() is not null
HasUnfocusedAppearance(h, id) == Owner(h, id, "unfocused") # 0

\* profile.UnfocusedAppearance().ColorSchemeName(): the unfocused appearance
\* is << s >> with s its own optional scheme name; without one it inherits
\* from the default appearance of the profile it belongs to.
UnfocusedColorSchemeName(h, id) ==
    IF h[Owner(h, id, "unfocused")].unfocused[1] # None
    THEN h[Owner(h, id, "unfocused")].unfocused[1][1]
    ELSE ColorSchemeName(h, Owner(h, id, "unfocused"))

\* InsertParent(parent): append to the parent list.
InsertParent(h, id, parent) ==
    [h EXCEPT ![id].parents = Append(@, parent)]

\* An insertion at the front that links the parent back to the child
InsertParentAt0Mutual(h, id, parent) ==
    [h EXCEPT ![id].parents = << parent >> \o @, ![parent].parents = Append(@, id)]

\* InsertParent(0, parent): insert at the front of the parent list.
InsertParentAt0(h, id, parent) ==
    [h EXCEPT ![id].parents = << parent >> \o @]

NewProfile(origin) ==
    [origin |-> origin, name |-> None, guid |-> None, hidden |-> None,
     F |-> None, scheme |-> None, unfocused |-> None, deleted |-> FALSE,
     updates |-> NilGuid, source |-> "", parents |-> << >>]

\* ReproduceProfile: a new User profile that inherits from parent.
\* The result is the heap with the new object appended; its id is Len.
ReproduceProfile(h, parent) ==
    Append(h, [NewProfile("User") EXCEPT
                 !.name = Some(Name(h, parent)),
                 !.guid = Some(Guid(h, parent)),
                 !.hidden = Some(Hidden(h, parent)),
                 !.parents = << parent >>])

(***************************************************************************)
(* JSON documents.  A document is what the JSON text holds:                *)
(*   kind      "ok", "syntax" (not JSON) or "type" (a value of wrong type) *)
(*   defaultProfile, disabledProfileSources   optional global keys         *)
(*   schemes   the names of the valid color schemes of "schemes"           *)
(*   defaults  the profiles.defaults object                                *)
(*   list      the profiles.list array, in document order                  *)
(* A profile object holds optional name, guid, hidden, F (any inheritable  *)
(* setting), scheme (colorScheme) and updates.                             *)
(***************************************************************************)
ProfileJson(name, guid, hidden, f, scheme, updates) ==
    [name |-> name, guid |-> guid, hidden |-> hidden, F |-> f,
     scheme |-> scheme, updates |-> updates, unfocused |-> None]

EmptyProfileJson == ProfileJson(None, None, None, None, None, None)

EmptyDoc ==
    [kind |-> "ok", defaultProfile |-> None, disabledProfileSources |-> None,
     schemes |-> {}, defaults |-> EmptyProfileJson, list |-> << >>]

EmptyMap == [x \in {} |-> 0]

NoSettings ==
    [globals |-> 0, baseLayerProfile |-> 0, profiles |-> << >>, profilesByGuid |-> EmptyMap]

\* SettingsLoader::_isValidProfileObject
IsValidProfileObject(e) == e.name # None \/ e.guid # None

\* Profile::FromJson: the explicit settings of the JSON object.
ProfileFromJson(e) ==
    [NewProfile("None") EXCEPT
        !.name = e.name, !.guid = e.guid, !.hidden = e.hidden, !.F = e.F,
        !.scheme = e.scheme, !.unfocused = e.unfocused,
        !.updates = IF e.updates # None THEN e.updates[1] ELSE NilGuid]

\* GlobalAppSettings::FromJson plus the "schemes" loop of _parse.
GlobalsFromJson(origin, doc) ==
    [unparsedDefaultProfile |-> doc.defaultProfile,
     defaultProfile |-> NilGuid,
     disabledProfileSources |-> doc.disabledProfileSources,
     colorSchemes |-> [n \in doc.schemes |-> origin],
     parents |-> << >>]

\* An append in which a later profile replaces the earlier one with its GUID.
AppendProfileOverwriting(ps, id) ==
    IF Guid(ps.h, id) \notin DOMAIN ps.profilesByGuid
    THEN [ps EXCEPT !.profiles = Append(@, id),
                    !.profilesByGuid = (Guid(ps.h, id) :> id) @@ @]
    ELSE [ps EXCEPT !.profiles = [k \in DOMAIN @ |->
                                     IF @[k] = ps.profilesByGuid[Guid(ps.h, id)]
                                     THEN id ELSE @[k]],
                    !.profilesByGuid = (Guid(ps.h, id) :> id) @@ @,
                    !.warnings = Append(@, WarnDuplicateProfile)]

\* An append that does not look at the index first
AppendProfileAlways(ps, id) ==
    [ps EXCEPT !.profiles = Append(@, id),
               !.profilesByGuid = (Guid(ps.h, id) :> id) @@ @]

\* SettingsLoader::_appendProfile on the parse state
\* ps = [h, profiles, profilesByGuid, warnings].
AppendProfile(ps, id) ==
    IF Guid(ps.h, id) \notin DOMAIN ps.profilesByGuid
    THEN [ps EXCEPT !.profiles = Append(@, id),
                    !.profilesByGuid = (Guid(ps.h, id) :> id) @@ @]
    ELSE [ps EXCEPT !.warnings = Append(@, WarnDuplicateProfile)]

\* if (!profile->HasGuid()) profile->Guid(profile->Guid());
EnsureGuid(p) ==
    IF p.guid # None THEN p
    ELSE [p EXCEPT !.guid = Some(GenerateGuidForProfile(ValueOr(p.name, DefaultName)))]

\* One valid element of profiles.list: the parsed object joins the heap and is appended.
ParseProfile(ps, origin, e) ==
    AppendProfile([ps EXCEPT !.h = Append(@, EnsureGuid([ProfileFromJson(e) EXCEPT
                                                           !.origin = origin]))],
                  Len(ps.h) + 1)

RECURSIVE ParseProfiles(_, _, _)
\* The profiles.list loop of SettingsLoader::_parse.
ParseProfiles(ps, origin, entries) ==
    IF entries = << >> THEN ps
    ELSE IF ~IsValidProfileObject(Head(entries))
    THEN ParseProfiles(ps, origin, Tail(entries))
    ELSE ParseProfiles(ParseProfile(ps, origin, Head(entries)), origin, Tail(entries))

\* SettingsLoader::_parse(origin, content, settings).  An empty content is
\* parsed as "{}".  The result carries the exception that ended the parse.
\* The ParsedSettings a parse fills in: ps is the state after the profiles.list loop.
Parsed(ps, gh1, base) ==
    [threw |-> "none", h |-> ps.h, gh |-> gh1, warnings |-> ps.warnings,
     settings |-> [globals |-> Len(gh1), baseLayerProfile |-> base,
                   profiles |-> ps.profiles, profilesByGuid |-> ps.profilesByGuid]]

\* _parseJSON and the deserialization of a value that throw.
ParseThrew(ex, h, gh, warns) ==
    [threw |-> ex, h |-> h, gh |-> gh, warnings |-> warns, settings |-> NoSettings]

ParseDoc(origin, doc, h, gh, warns) ==
    IF doc.kind = "syntax" THEN ParseThrew("hresult_error", h, gh, warns)
    ELSE IF doc.kind = "type" THEN ParseThrew("DeserializationError", h, gh, warns)
    ELSE Parsed(ParseProfiles(
                    \* profiles.defaults: ClearGuid, Origin(ProfilesDefaults)
                    [h |-> Append(h, [ProfileFromJson(doc.defaults) EXCEPT
                                         !.guid = None, !.origin = "ProfilesDefaults"]),
                     profiles |-> << >>, profilesByGuid |-> EmptyMap, warnings |-> warns],
                    origin, doc.list),
                Append(gh, GlobalsFromJson(origin, doc)),
                Len(h) + 1)

Parse(origin, content, h, gh, warns) ==
    ParseDoc(origin, ValueOr(content, EmptyDoc), h, gh, warns)

(***************************************************************************)
(* The entry points.  env.mode is "LoadAll" (CascadiaSettings::LoadAll) or *)
(* "Default" (the CascadiaSettings(userJSON, inboxJSON) constructor, which *)
(* runs SettingsLoader::Default).                                          *)
(***************************************************************************)
NoContainer ==
    [loaded |-> FALSE, globals |-> 0, baseLayerProfile |-> 0,
     allProfiles |-> << >>, activeProfiles |-> << >>, warnings |-> << >>,
     loadError |-> None, deserializationErrorMessage |-> None]

\* const auto firstTimeSetup = settingsString.empty();
FirstTimeSetup == env.settingsString = None

\* The arguments the entry point passes to SettingsLoader{ userJSON, inboxJSON }.
\* LoadAll: SettingsLoader loader{ DefaultJson, settingsStringView };
LoaderUserJSON ==
    IF env.mode = "LoadAll" THEN Some(env.DefaultJson) ELSE env.userJSON
LoaderInboxJSON ==
    IF env.mode = "LoadAll"
    THEN (IF FirstTimeSetup THEN Some(env.UserSettingsJson) ELSE env.settingsString)
    ELSE env.inboxJSON

\* What becomes of an exception of kind e that leaves the loader or the
\* container constructor: LoadAll catches SettingsException and
\* SettingsTypedDeserializationException and returns a default-constructed
\* object carrying the error; every other exception, and every exception of
\* the plain constructor, propagates to the caller.
Caught(e) ==
    env.mode = "LoadAll" /\ e \in {"SettingsException", "SettingsTypedDeserializationException"}

Exception(type) == [type |-> type, error |-> "none"]
NoException == Exception("none")

\* The exception ex = [type, error] leaves the loader or the constructor.
Raise(ex) ==
    /\ pc' = "done"
    /\ IF Caught(ex.type)
       THEN /\ thrown' = NoException
            /\ settings' = IF ex.type = "SettingsException"
                           THEN [NoContainer EXCEPT !.loadError = Some(ex.error)]
                           ELSE [NoContainer EXCEPT
                                    !.deserializationErrorMessage = Some("Line, Column")]
       ELSE /\ thrown' = ex
            /\ settings' = settings

(***************************************************************************)
(* SettingsLoader::SettingsLoader(userJSON, inboxJSON)                     *)
(***************************************************************************)
\* The exception that leaves the constructor after the parses i (inbox) and
\* u (user).  The inbox parse is outside the try block: its exception leaves
\* as it is.  A DeserializationError of the user parse is rethrown with the
\* location of the value.
CtorException(i, u) ==
    IF i.threw # "none" THEN i.threw
    ELSE IF u.threw = "DeserializationError" THEN "SettingsTypedDeserializationException"
    ELSE u.threw

\* The constructor body after the two parses.
Constructed(i, u) ==
    IF CtorException(i, u) # "none"
    THEN /\ Raise(Exception(CtorException(i, u)))
         /\ UNCHANGED << heap, gheap, inboxSettings, userSettings, warnings,
                         ignoredNamespaces, userProfileCount >>
    ELSE /\ heap' = u.h
         /\ gheap' = u.gh
         /\ inboxSettings' = i.settings
         /\ userSettings' = u.settings
         /\ warnings' = u.warnings
         /\ ignoredNamespaces' = ValueOr(u.gh[u.settings.globals].disabledProfileSources, {})
         /\ userProfileCount' = Len(u.settings.profiles)
         /\ pc' = IF env.mode = "LoadAll" THEN "GenerateProfiles"
                  ELSE "MergeInboxIntoUserProfiles"
         /\ UNCHANGED << settings, thrown >>

\* The user document is parsed after the inbox document i.
ParseUserAfter(i) ==
    Constructed(i, IF i.threw # "none" THEN i
                   ELSE Parse("User", LoaderUserJSON, i.h, i.gh, i.warnings))

SettingsLoaderCtor ==
    /\ pc = "SettingsLoader"
    /\ ParseUserAfter(Parse("InBox", LoaderInboxJSON, heap, gheap, warnings))
    /\ UNCHANGED << previous, env, appState, written, copied >>

(***************************************************************************)
(* SettingsLoader::GenerateProfiles.  env.generators is the sequence of    *)
(* generators, each [namespace, profiles]: the profile objects it appends. *)
(***************************************************************************)
GeneratedProfile(ns, e) ==
    [ProfileFromJson(e) EXCEPT !.origin = "Generated", !.source = ns]

\* One generator g: skipped if its namespace is ignored, else its profiles
\* are appended to inboxSettings.profiles.
ExecuteGenerator(st, g, ignored) ==
    IF g.namespace \in ignored THEN st
    ELSE [h |-> st.h \o [k \in 1..Len(g.profiles) |->
                            GeneratedProfile(g.namespace, g.profiles[k])],
          profiles |-> st.profiles \o [k \in 1..Len(g.profiles) |-> Len(st.h) + k]]

RECURSIVE ExecuteGenerators(_, _, _)
\* st = [h, profiles]: the heap and inboxSettings.profiles
ExecuteGenerators(st, gens, ignored) ==
    IF gens = << >> THEN st
    ELSE ExecuteGenerators(ExecuteGenerator(st, Head(gens), ignored), Tail(gens), ignored)

Generated(st) ==
    /\ heap' = st.h
    /\ inboxSettings' = [inboxSettings EXCEPT !.profiles = st.profiles]

GenerateProfiles ==
    /\ pc = "GenerateProfiles"
    /\ Generated(ExecuteGenerators([h |-> heap, profiles |-> inboxSettings.profiles],
                                   env.generators, ignoredNamespaces))
    /\ pc' = IF FirstTimeSetup THEN "FillBlanksInDefaultsJson"
             ELSE "MergeInboxIntoUserProfiles"
    /\ UNCHANGED << previous, env, gheap, userSettings, warnings, ignoredNamespaces,
                    userProfileCount, appState, settings, thrown, written, copied >>

(***************************************************************************)
(* SettingsLoader::FillBlanksInDefaultsJson                                *)
(***************************************************************************)
\* The least index of seq that is in the set hits, 0 if there is none
\* (the position a first-match loop over seq stops at).
FirstIndex(seq, hits) ==
    IF hits = {} THEN 0
    ELSE CHOOSE k \in hits : \A j \in hits : k <= j

\* The positions of the profiles of seq with that name, with that GUID.
IndicesWithName(h, seq, name) == {k \in 1..Len(seq) : Name(h, seq[k]) = name}
IndicesWithGuid(h, seq, guid) == {k \in 1..Len(seq) : Guid(h, seq[k]) = guid}

\* GlobalAppSettings::DefaultProfile(guid)
SetDefaultProfile(gh, g, guid) ==
    [gh EXCEPT ![g].defaultProfile = guid,
               ![g].unparsedDefaultProfile = Some(GuidToString(guid))]

\* k: the position of the preferred PowerShell profile in inboxSettings.profiles,
\* c: the position of the Command Prompt profile in userSettings.profiles (0: none).
FillBlanks(k, c) ==
    /\ gheap' = SetDefaultProfile(gheap, userSettings.globals,
                                  IF k # 0 THEN Guid(heap, inboxSettings.profiles[k])
                                  ELSE DEFAULT_WINDOWS_POWERSHELL_GUID)
    /\ heap' = IF c # 0
               THEN [heap EXCEPT ![userSettings.profiles[c]].name =
                                     Some(CommandPromptDisplayName)]
               ELSE heap

FillBlanksInDefaultsJson ==
    /\ pc = "FillBlanksInDefaultsJson"
    /\ FillBlanks(FirstIndex(inboxSettings.profiles,
                             IndicesWithName(heap, inboxSettings.profiles,
                                             PreferredPowershellProfileName)),
                  FirstIndex(userSettings.profiles,
                             IndicesWithGuid(heap, userSettings.profiles,
                                             DEFAULT_COMMAND_PROMPT_GUID)))
    /\ pc' = "MergeInboxIntoUserProfiles"
    /\ UNCHANGED << previous, env, inboxSettings, userSettings, warnings, ignoredNamespaces,
                    userProfileCount, appState, settings, thrown, written, copied >>

(***************************************************************************)
(* SettingsLoader::MergeInboxIntoUserProfiles                              *)
(***************************************************************************)
\* The loop body for the inbox profile gp, whose GUID is g, on
\* st = [h, profiles, profilesByGuid]: the heap and the two members of userSettings
MergeInboxProfile(st, gp, g) ==
    IF g \in DOMAIN st.profilesByGuid
    THEN \* emplace found the key: it->second->InsertParent(generatedProfile)
         [st EXCEPT !.h = InsertParent(st.h, st.profilesByGuid[g], gp)]
    ELSE \* emplace stored generatedProfile under the key
         [h |-> ReproduceProfile(st.h, gp),
          profiles |-> Append(st.profiles, Len(st.h) + 1),
          profilesByGuid |-> (g :> gp) @@ st.profilesByGuid]

RECURSIVE MergeInbox(_, _)
MergeInbox(st, generated) ==
    IF generated = << >> THEN st
    ELSE MergeInbox(MergeInboxProfile(st, Head(generated), Guid(st.h, Head(generated))),
                    Tail(generated))

Merged(st) ==
    /\ heap' = st.h
    /\ userSettings' = [userSettings EXCEPT !.profiles = st.profiles,
                                            !.profilesByGuid = st.profilesByGuid]

MergeInboxIntoUserProfiles ==
    /\ pc = "MergeInboxIntoUserProfiles"
    /\ Merged(MergeInbox([h |-> heap, profiles |-> userSettings.profiles,
                          profilesByGuid |-> userSettings.profilesByGuid],
                         inboxSettings.profiles))
    /\ pc' = IF env.mode = "LoadAll" THEN "MergeFragmentsIntoUserProfiles"
             ELSE "FinalizeLayering"
    /\ UNCHANGED << previous, env, gheap, inboxSettings, warnings, ignoredNamespaces,
                    userProfileCount, appState, settings, thrown, written, copied >>

(***************************************************************************)
(* SettingsLoader::MergeFragmentsIntoUserProfiles.  env.fragments is the   *)
(* sequence of fragment files found, each [source, content], in the order  *)
(* the folders and app extensions are enumerated.                          *)
(***************************************************************************)
\* The loop body for the fragment profile fp, which names the GUID updates
\* (NilGuid: none), on st = [h, profiles, profilesByGuid, warnings]
LayerFragmentProfile(st, source, fp, updates) ==
    IF updates # NilGuid
    THEN IF updates \in DOMAIN st.profilesByGuid
         THEN [st EXCEPT !.h = InsertParentAt0([st.h EXCEPT ![fp].source = source],
                                               st.profilesByGuid[updates], fp)]
         ELSE st
    ELSE AppendProfile([st EXCEPT !.h = ReproduceProfile([st.h EXCEPT ![fp].source = source],
                                                         fp)],
                       Len(st.h) + 1)

RECURSIVE LayerFragmentProfiles(_, _, _)
\* The loop over fragmentSettings.profiles
LayerFragmentProfiles(st, source, fragmentProfiles) ==
    IF fragmentProfiles = << >> THEN st
    ELSE LayerFragmentProfiles(
             LayerFragmentProfile(st, source, Head(fragmentProfiles),
                                  st.h[Head(fragmentProfiles)].updates),
             source, Tail(fragmentProfiles))

\* GlobalAppSettings::AddColorScheme for every scheme of the fragment
AddColorSchemes(gh, g, names, def) ==
    [gh EXCEPT ![g].colorSchemes =
        [n \in (DOMAIN @) \cup names |-> IF n \in names THEN def ELSE @[n]]]

\* The state after the profiles (l) and the color schemes of the parsed
\* fragment r of file f are layered.
Layered(l, r, f) ==
    [h |-> l.h,
     gh |-> AddColorSchemes(r.gh, userSettings.globals, f.content.schemes, f.source),
     profiles |-> l.profiles,
     profilesByGuid |-> l.profilesByGuid,
     warnings |-> l.warnings]

\* parseAndLayerFragmentFiles for one file f, parsed as r, on
\* st = [h, gh, profiles, profilesByGuid, warnings]
LayerFragmentFile(st, f, r) ==
    IF r.threw # "none" THEN st   \* the exception is caught and logged
    ELSE Layered(LayerFragmentProfiles(
                     [h |-> r.h, profiles |-> st.profiles,
                      profilesByGuid |-> st.profilesByGuid, warnings |-> r.warnings],
                     f.source, r.settings.profiles),
                 r, f)

ParseAndLayerFragmentFile(st, f, ignored) ==
    IF f.source \in ignored THEN st
    ELSE LayerFragmentFile(st, f, Parse("Fragment", Some(f.content), st.h, st.gh, st.warnings))

RECURSIVE ParseAndLayerFragmentFiles(_, _, _)
ParseAndLayerFragmentFiles(st, files, ignored) ==
    IF files = << >> THEN st
    ELSE ParseAndLayerFragmentFiles(ParseAndLayerFragmentFile(st, Head(files), ignored),
                                    Tail(files), ignored)

FragmentsMerged(st) ==
    /\ heap' = st.h
    /\ gheap' = st.gh
    /\ userSettings' = [userSettings EXCEPT !.profiles = st.profiles,
                                            !.profilesByGuid = st.profilesByGuid]
    /\ warnings' = st.warnings

MergeFragmentsIntoUserProfiles ==
    /\ pc = "MergeFragmentsIntoUserProfiles"
    /\ FragmentsMerged(ParseAndLayerFragmentFiles(
                           [h |-> heap, gh |-> gheap, profiles |-> userSettings.profiles,
                            profilesByGuid |-> userSettings.profilesByGuid,
                            warnings |-> warnings],
                           env.fragments, ignoredNamespaces))
    /\ pc' = "DisableDeletedProfiles"
    /\ UNCHANGED << previous, env, inboxSettings, ignoredNamespaces, userProfileCount,
                    appState, settings, thrown, written, copied >>

(***************************************************************************)
(* SettingsLoader::DisableDeletedProfiles                                  *)
(***************************************************************************)
\* The loop body for profile p, whose GUID is g, on
\* st = [h, generatedProfileIds, newGeneratedProfiles]
DisableDeletedProfile(st, p, g) ==
    IF g \notin st.generatedProfileIds
    THEN [st EXCEPT !.generatedProfileIds = @ \cup {g},
                    !.newGeneratedProfiles = TRUE]
    ELSE [st EXCEPT !.h[p].deleted = TRUE,
                    !.h[p].hidden = Some(TRUE)]

RECURSIVE DisableDeleted(_, _)
\* profiles is gsl::make_span(userSettings.profiles).subspan(userProfileCount)
DisableDeleted(st, profiles) ==
    IF profiles = << >> THEN st
    ELSE DisableDeleted(DisableDeletedProfile(st, Head(profiles), Guid(st.h, Head(profiles))),
                        Tail(profiles))

Disabled(st) ==
    /\ heap' = st.h
    /\ appState' = IF st.newGeneratedProfiles THEN st.generatedProfileIds ELSE appState

DisableDeletedProfiles ==
    /\ pc = "DisableDeletedProfiles"
    /\ Disabled(DisableDeleted(
                    [h |-> heap, generatedProfileIds |-> appState,
                     newGeneratedProfiles |-> FALSE],
                    SubSeq(userSettings.profiles, userProfileCount + 1,
                           Len(userSettings.profiles))))
    /\ pc' = "FinalizeLayering"
    /\ UNCHANGED << previous, env, gheap, inboxSettings, userSettings, warnings,
                    ignoredNamespaces, userProfileCount, settings, thrown, written, copied >>

(***************************************************************************)
(* SettingsLoader::FinalizeLayering                                        *)
(***************************************************************************)
\* _colorSchemes.Insert(k, v) for every entry of the map pcs
InsertSchemes(gh, g, pcs) ==
    [gh EXCEPT ![g].colorSchemes =
        [n \in (DOMAIN @) \cup (DOMAIN pcs) |-> IF n \in DOMAIN pcs THEN pcs[n] ELSE @[n]]]

RECURSIVE FinalizeGlobalsFrom(_, _, _)
\* GlobalAppSettings::_FinalizeInheritance: every color scheme of every
\* parent is Insert()ed into the map of g.
FinalizeGlobalsFrom(gh, g, parents) ==
    IF parents = << >> THEN gh
    ELSE FinalizeGlobalsFrom(InsertSchemes(gh, g, gh[Head(parents)].colorSchemes),
                             g, Tail(parents))

GlobalsFinalizeInheritance(gh, g) == FinalizeGlobalsFrom(gh, g, gh[g].parents)

RECURSIVE LayerProfileDefaultsLast(_, _, _)
\* A layering that appends the base layer to the parents of every user profile.
LayerProfileDefaultsLast(h, profiles, base) ==
    IF profiles = << >> THEN h
    ELSE LayerProfileDefaultsLast(InsertParent(h, Head(profiles), base),
                                  Tail(profiles), base)

RECURSIVE LayerProfileDefaults(_, _, _)
\* profile->InsertParent(0, userSettings.baseLayerProfile) for every user profile
LayerProfileDefaults(h, profiles, base) ==
    IF profiles = << >> THEN h
    ELSE LayerProfileDefaults(InsertParentAt0(h, Head(profiles), base), Tail(profiles), base)

FinalizeLayering ==
    /\ pc = "FinalizeLayering"
    /\ gheap' = GlobalsFinalizeInheritance(
                    InsertParent(gheap, userSettings.globals, inboxSettings.globals),
                    userSettings.globals)
    /\ heap' = LayerProfileDefaults(
                   InsertParent(heap, userSettings.baseLayerProfile,
                                inboxSettings.baseLayerProfile),
                   userSettings.profiles, userSettings.baseLayerProfile)
    /\ pc' = "CascadiaSettings"
    /\ UNCHANGED << previous, env, inboxSettings, userSettings, warnings, ignoredNamespaces,
                    userProfileCount, appState, settings, thrown, written, copied >>

(***************************************************************************)
(* CascadiaSettings::CascadiaSettings(SettingsLoader&&)                    *)
(***************************************************************************)
\* CascadiaSettings::FindProfile: the first profile of all with that GUID, 0 if none
FindProfile(h, all, guid) ==
    IF IndicesWithGuid(h, all, guid) = {} THEN 0
    ELSE all[FirstIndex(all, IndicesWithGuid(h, all, guid))]

\* CascadiaSettings::_getProfileGuidByName: Some(guid) or None (std::nullopt).
\* Utils::GuidFromString throws on a string that is no GUID; the function
\* try block catches it and returns std::nullopt.
GetProfileGuidByName(h, all, name) ==
    IF name = EmptyStr THEN None
    ELSE IF LooksLikeGuid(name) /\ ~GuidStringParses(name) THEN None
    ELSE IF LooksLikeGuid(name) /\ FindProfile(h, all, GuidFromString(name)) # 0
    THEN Some(GuidFromString(name))
    ELSE \* the loop over the names
         IF IndicesWithName(h, all, name) = {} THEN None
         ELSE Some(Guid(h, all[FirstIndex(all, IndicesWithName(h, all, name))]))

\* CascadiaSettings::_getProfileGuidByIndex on the active profiles:
\* Some(guid) or None (std::nullopt)
GetProfileGuidByIndex(h, active, index) ==
    IF index # None /\ index[1] >= 0 /\ index[1] < Len(active)
    THEN Some(Guid(h, active[index[1] + 1]))
    ELSE None

\* CascadiaSettings::GetProfileForArgs on object c: the profile, 0 for null.
\* newTerminalArgs is None (null) or << [profile, profileIndex, commandline] >>;
\* feature is Feature_ShowProfileDefaultsInSettings::IsEnabled() of the build.
GetProfileForArgs(h, gh, c, newTerminalArgs, feature) ==
    IF /\ newTerminalArgs # None
       /\ GetProfileGuidByName(h, c.allProfiles, newTerminalArgs[1].profile) # None
    THEN FindProfile(h, c.allProfiles,
                     GetProfileGuidByName(h, c.allProfiles, newTerminalArgs[1].profile)[1])
    ELSE IF /\ newTerminalArgs # None
            /\ newTerminalArgs[1].profileIndex # None
            /\ GetProfileGuidByIndex(h, c.activeProfiles,
                                     newTerminalArgs[1].profileIndex) # None
    THEN FindProfile(h, c.allProfiles,
                     GetProfileGuidByIndex(h, c.activeProfiles,
                                           newTerminalArgs[1].profileIndex)[1])
    ELSE IF feature /\ newTerminalArgs # None /\ newTerminalArgs[1].commandline # EmptyStr
    THEN c.baseLayerProfile
    ELSE FindProfile(h, c.allProfiles, gh[c.globals].defaultProfile)

\* GlobalAppSettings::UnparsedDefaultProfile(): inherited, L"" by default
UnparsedDefaultProfile(gh, g) ==
    ValueOr(Lookup(gh, g, "unparsedDefaultProfile"), EmptyStr)

\* A repair of the default profile that records no warning.
FinalizeDefaultProfileSilently(st, h, g, all, unparsed, guid) ==
    [st EXCEPT !.gh = SetDefaultProfile(st.gh, g,
                                        IF unparsed # EmptyStr /\ guid # None
                                        THEN guid[1] ELSE Guid(h, all[1]))]

\* The body of _finalizeSettings once the default profile string unparsed
\* is looked up as guid.
FinalizeDefaultProfile(st, h, g, all, unparsed, guid) ==
    IF unparsed # EmptyStr /\ guid # None
    THEN [st EXCEPT !.gh = SetDefaultProfile(st.gh, g, guid[1])]
    ELSE \* Use the first profile as the new default.
         [gh |-> SetDefaultProfile(st.gh, g, Guid(h, all[1])),
          warnings |-> Append(st.warnings, WarnMissingDefaultProfile)]

\* CascadiaSettings::_finalizeSettings on st = [gh, warnings]
FinalizeSettings(st, h, g, all) ==
    FinalizeDefaultProfile(st, h, g, all, UnparsedDefaultProfile(st.gh, g),
                           GetProfileGuidByName(h, all, UnparsedDefaultProfile(st.gh, g)))

\* profile.DefaultAppearance().ClearColorSchemeName() if the scheme is unknown
ClearUnknownDefaultScheme(st, schemes, p) ==
    IF ColorSchemeName(st.h, p) \notin schemes
    THEN [h |-> [st.h EXCEPT ![p].scheme = None], foundInvalidScheme |-> TRUE]
    ELSE st

\* profile.UnfocusedAppearance().ClearColorSchemeName() if there is an
\* unfocused appearance and its scheme is unknown
ClearUnknownUnfocusedScheme(st, schemes, p) ==
    IF HasUnfocusedAppearance(st.h, p) /\ UnfocusedColorSchemeName(st.h, p) \notin schemes
    THEN [h |-> [st.h EXCEPT ![Owner(st.h, p, "unfocused")].unfocused = Some(None)],
          foundInvalidScheme |-> TRUE]
    ELSE st

\* A validation that looks at the default appearance only.
ClearUnknownSchemeDefaultOnly(st, schemes, p) ==
    ClearUnknownDefaultScheme(st, schemes, p)

\* The loop body for profile p
ClearUnknownScheme(st, schemes, p) ==
    ClearUnknownUnfocusedScheme(ClearUnknownDefaultScheme(st, schemes, p), schemes, p)

RECURSIVE ClearUnknownSchemes(_, _, _)
\* The loop of _validateAllSchemesExist on st = [h, foundInvalidScheme]
ClearUnknownSchemes(st, schemes, profiles) ==
    IF profiles = << >> THEN st
    ELSE ClearUnknownSchemes(ClearUnknownScheme(st, schemes, Head(profiles)),
                             schemes, Tail(profiles))

\* CascadiaSettings::_validateAllSchemesExist on st = [h, warnings]
SchemesValidated(r, warns) ==
    [h |-> r.h,
     warnings |-> IF r.foundInvalidScheme THEN Append(warns, WarnUnknownColorScheme)
                  ELSE warns]

ValidateAllSchemesExist(st, schemes, all) ==
    SchemesValidated(ClearUnknownSchemes([h |-> st.h, foundInvalidScheme |-> FALSE],
                                         schemes, all),
                     st.warnings)

\* The profiles of all that are not hidden, in order
RECURSIVE ActiveOf(_, _)
ActiveOf(h, all) ==
    IF all = << >> THEN << >>
    ELSE (IF Hidden(h, Head(all)) THEN << >> ELSE << Head(all) >>) \o ActiveOf(h, Tail(all))

\* The object is complete: val = [h, warnings] is the result of _validateSettings.
Validated(gh, val, allProfiles, activeProfiles) ==
    /\ gheap' = gh
    /\ heap' = val.h
    /\ settings' = [loaded |-> TRUE,
                    globals |-> userSettings.globals,
                    baseLayerProfile |-> userSettings.baseLayerProfile,
                    allProfiles |-> allProfiles,
                    activeProfiles |-> activeProfiles,
                    warnings |-> val.warnings,
                    loadError |-> None,
                    deserializationErrorMessage |-> None]
    /\ pc' = IF env.mode = "LoadAll" /\ FirstTimeSetup
             THEN "WriteSettingsToDisk" ELSE "done"
    /\ thrown' = thrown

\* _finalizeSettings() gave fin = [gh, warnings]; then _validateSettings().
Finalized(fin, allProfiles, activeProfiles) ==
    Validated(fin.gh,
              ValidateAllSchemesExist([h |-> heap, warnings |-> fin.warnings],
                                      DOMAIN fin.gh[userSettings.globals].colorSchemes,
                                      allProfiles),
              allProfiles, activeProfiles)

\* A constructor that does not look at the list of active profiles.
ConstructIgnoringHidden(allProfiles, activeProfiles) ==
    IF allProfiles = << >>
    THEN /\ Raise([type |-> "SettingsException", error |-> ErrNoProfiles])
         /\ UNCHANGED << heap, gheap >>
    ELSE Finalized(FinalizeSettings([gh |-> gheap, warnings |-> warnings],
                                    heap, userSettings.globals, allProfiles),
                   allProfiles, activeProfiles)

\* The constructor body on the two lists it computed first.
Construct(allProfiles, activeProfiles) ==
    IF allProfiles = << >>
    THEN /\ Raise([type |-> "SettingsException", error |-> ErrNoProfiles])
         /\ UNCHANGED << heap, gheap >>
    ELSE IF activeProfiles = << >>
    THEN /\ Raise([type |-> "SettingsException", error |-> ErrAllProfilesHidden])
         /\ UNCHANGED << heap, gheap >>
    ELSE Finalized(FinalizeSettings([gh |-> gheap, warnings |-> warnings],
                                    heap, userSettings.globals, allProfiles),
                   allProfiles, activeProfiles)

CascadiaSettingsCtor ==
    /\ pc = "CascadiaSettings"
    /\ Construct(userSettings.profiles, ActiveOf(heap, userSettings.profiles))
    /\ UNCHANGED << previous, env, inboxSettings, userSettings, warnings, ignoredNamespaces,
                    userProfileCount, appState, written, copied >>

(***************************************************************************)
(* The tail of LoadAll: if (firstTimeSetup) WriteSettingsToDisk(), whose   *)
(* failure is caught and reported as a warning.                            *)
(***************************************************************************)
WriteSettingsToDisk ==
    /\ pc = "WriteSettingsToDisk"
    /\ IF env.writeFails
       THEN /\ settings' = [settings EXCEPT
                               !.warnings = Append(@, WarnFailedToWriteToSettings)]
            /\ written' = written
       ELSE /\ written' = TRUE
            /\ settings' = settings
    /\ pc' = "done"
    /\ UNCHANGED << previous, env, heap, gheap, inboxSettings, userSettings, warnings,
                    ignoredNamespaces, userProfileCount, appState, thrown, copied >>

(***************************************************************************)
(* CascadiaSettings::Copy                                                  *)
(***************************************************************************)
\* A state [h, visited] with the id of the clone that was asked for.
WithClone(st, c) == [h |-> st.h, visited |-> st.visited, clone |-> c]

\* The clone r.clone becomes the next parent of c.
AttachParent(r, c) == [h |-> InsertParent(r.h, c, r.clone), visited |-> r.visited]

\* The clone r.clone becomes the next element of target.
AppendClone(r, target) ==
    [h |-> r.h, visited |-> r.visited, target |-> Append(target, r.clone)]

RECURSIVE CopyInterned(_, _)
RECURSIVE CopyInternedParents(_, _, _)

\* Profile::CopyInterned(visited) on st = [h, visited]: the result adds the
\* field clone, the id of the clone of id.  A profile already visited is
\* not cloned again.
CopyInterned(st, id) ==
    IF id \in DOMAIN st.visited
    THEN [h |-> st.h, visited |-> st.visited, clone |-> st.visited[id]]
    ELSE WithClone(CopyInternedParents(
                       [h |-> Append(st.h, [st.h[id] EXCEPT !.parents = << >>]),
                        visited |-> (id :> (Len(st.h) + 1)) @@ st.visited],
                       st.h[id].parents, Len(st.h) + 1),
                   Len(st.h) + 1)

\* The parents of the source are interned in order and attached to clone c.
CopyInternedParents(st, parents, c) ==
    IF parents = << >> THEN st
    ELSE CopyInternedParents(AttachParent(CopyInterned(st, Head(parents)), c),
                             Tail(parents), c)

RECURSIVE CopyInheritanceGraph(_, _)
\* Profile::CopyInheritanceGraph(visited, source, target) on
\* st = [h, visited, target]
CopyInheritanceGraph(st, source) ==
    IF source = << >> THEN st
    ELSE CopyInheritanceGraph(
             AppendClone(CopyInterned([h |-> st.h, visited |-> st.visited], Head(source)),
                         st.target),
             Tail(source))

\* The copy r.clone of a parent becomes the next parent of c.
GlobalsAttachParent(r, c) == InsertParent(r.gh, c, r.clone)

\* A copy of the globals object alone, which keeps the parents of the original
GlobalsCopyShallow(gh, g) ==
    [gh |-> Append(gh, gh[g]), clone |-> Len(gh) + 1]

RECURSIVE GlobalsCopy(_, _)
RECURSIVE GlobalsCopyParents(_, _, _)
\* GlobalAppSettings::Copy: the result is [gh, clone]
GlobalsCopy(gh, g) ==
    [gh |-> GlobalsCopyParents(Append(gh, [gh[g] EXCEPT !.parents = << >>]),
                               gh[g].parents, Len(gh) + 1),
     clone |-> Len(gh) + 1]

GlobalsCopyParents(gh, parents, c) ==
    IF parents = << >> THEN gh
    ELSE GlobalsCopyParents(GlobalsAttachParent(GlobalsCopy(gh, Head(parents)), c),
                            Tail(parents), c)

NoCopy == [made |-> FALSE, settings |-> NoContainer, visited |-> EmptyMap]

\* The object Copy() returns, with the final "visited" map of the call.
\* The new object: b is the copy of the base layer, t of the profiles, g of the globals.
Copied(src, b, t, g) ==
    [h |-> t.h, gh |-> g.gh, visited |-> t.visited,
     settings |-> [loaded |-> src.loaded,
                   globals |-> g.clone,
                   baseLayerProfile |-> b.clone,
                   allProfiles |-> t.target,
                   activeProfiles |-> ActiveOf(t.h, t.target),
                   warnings |-> src.warnings,
                   loadError |-> src.loadError,
                   deserializationErrorMessage |-> src.deserializationErrorMessage]]

\* A copy of the profiles that starts from an empty visited map.
CopyProfilesApart(src, b, g) ==
    Copied(src, b,
           CopyInheritanceGraph([h |-> b.h, visited |-> EmptyMap, target |-> << >>],
                                src.allProfiles),
           g)

\* The profiles are copied with the visited map the base layer copy b left.
CopyProfiles(src, b, g) ==
    Copied(src, b,
           CopyInheritanceGraph([h |-> b.h, visited |-> b.visited, target |-> << >>],
                                src.allProfiles),
           g)

CopyOf(h, gh, src) ==
    CopyProfiles(src, CopyInterned([h |-> h, visited |-> EmptyMap], src.baseLayerProfile),
                 GlobalsCopy(gh, src.globals))

CopyMade(c) ==
    /\ heap' = c.h
    /\ gheap' = c.gh
    /\ copied' = [made |-> TRUE, settings |-> c.settings, visited |-> c.visited]

Copy ==
    /\ pc = "done"
    /\ settings.loaded
    /\ ~copied.made
    /\ CopyMade(CopyOf(heap, gheap, settings))
    /\ UNCHANGED << previous, env, pc, inboxSettings, userSettings, warnings, ignoredNamespaces,
                    userProfileCount, appState, settings, thrown, written >>

(***************************************************************************)
(* Inputs.                                                                 *)
(***************************************************************************)
\* The number of profile objects in all the inputs of one load together.
MaxProfiles == 3

Seqs(S, n) == UNION {[1..k -> S] : k \in 0..n}

\* A profile object with a guid and settings worth v; it is named only if named.
Entries(v, names) ==
    {ProfileJson(n, Some(g), x[1], x[2], None, None) :
        n \in names, g \in Guids,
        x \in {<< None, None >>, << Some(TRUE), None >>, << None, Some(v) >>}}

FileEntries == Entries("user", {None})
InboxEntries == Entries("inbox", {None})
GeneratedEntries ==
    {ProfileJson(Some(n), Some(g), None, Some("gen"), None, None) :
        n \in {NameB}, g \in Guids}
\* A fragment profile either updates a GUID (with or without a guid of its own)
\* or is a new profile.
FragmentEntries ==
    {ProfileJson(None, own, None, Some("frag"), None, Some(g)) :
        own \in {None, Some("g3")}, g \in Guids}
    \cup {ProfileJson(None, Some(g), None, Some("frag"), None, None) : g \in Guids}

DocWith(list, f) ==
    [EmptyDoc EXCEPT !.list = list, !.defaults.F = f]

NoEnv ==
    [mode |-> "Default", userJSON |-> None, inboxJSON |-> None,
     settingsString |-> None, DefaultJson |-> EmptyDoc, UserSettingsJson |-> EmptyDoc,
     generators |-> << >>, fragments |-> << >>, generatedProfiles |-> {},
     writeFails |-> FALSE]

\* The settings.json template of a first start (userDefaults.h).
UserSettingsTemplate ==
    [EmptyDoc EXCEPT
        !.defaultProfile = Some(GuidToString(DEFAULT_WINDOWS_POWERSHELL_GUID)),
        !.list = << ProfileJson(None, Some(DEFAULT_WINDOWS_POWERSHELL_GUID),
                                Some(FALSE), None, None, None),
                    ProfileJson(None, Some(DEFAULT_COMMAND_PROMPT_GUID),
                                Some(FALSE), None, None, None) >>]

\* No load ran before this one.
NoPrevious ==
    [made |-> FALSE, env |-> NoEnv, heap |-> << >>, gheap |-> << >>, settings |-> NoContainer]

\* The load starts with the inputs e; persisted is the set of GUIDs that
\* ApplicationState holds from earlier loads.
StartWith(e, persisted) ==
    /\ env = [e EXCEPT !.generatedProfiles = persisted]
    /\ appState = persisted
    /\ pc = "SettingsLoader"
    /\ heap = << >>
    /\ gheap = << >>
    /\ inboxSettings = NoSettings
    /\ userSettings = NoSettings
    /\ warnings = << >>
    /\ ignoredNamespaces = {}
    /\ userProfileCount = 0
    /\ settings = NoContainer
    /\ thrown = NoException
    /\ written = FALSE
    /\ copied = NoCopy
    /\ previous = NoPrevious

\* CascadiaSettings(userJSON, inboxJSON) on documents with layered profiles
InitDefault ==
    \E nu \in 0..MaxProfiles :
    \E ni \in 0..(MaxProfiles - nu) :
    \E ul \in [1..nu -> FileEntries], il \in [1..ni -> InboxEntries],
       uf \in {None, Some("udef")}, if \in {None, Some("idef")} :
        StartWith([NoEnv EXCEPT !.mode = "Default",
                                !.userJSON = Some(DocWith(ul, uf)),
                                !.inboxJSON = Some(DocWith(il, if))], {})

\* LoadAll with an existing settings.json
InitLoadAll ==
    \E nu \in 1..MaxProfiles :
    \E ni \in 0..(MaxProfiles - nu) :
    \E ng \in 0..(IF nu + ni < MaxProfiles THEN 1 ELSE 0) :
    \E nf \in 0..(IF nu + ni + ng < MaxProfiles THEN 1 ELSE 0) :
    \E ul \in [1..nu -> FileEntries], il \in [1..ni -> InboxEntries],
       gl \in [1..ng -> GeneratedEntries], fl \in [1..nf -> FragmentEntries],
       df \in {None, Some("idef")}, persisted \in SUBSET Guids :
        StartWith([NoEnv EXCEPT
                      !.mode = "LoadAll",
                      !.settingsString = Some(DocWith(ul, None)),
                      !.DefaultJson = DocWith(il, df),
                      !.generators = << [namespace |-> "Generator", profiles |-> gl] >>,
                      !.fragments = IF fl = << >> THEN << >>
                                    ELSE << [source |-> "Fragment",
                                             content |-> DocWith(fl, None)] >>],
                  persisted)

\* LoadAll without a settings.json (first start)
InitFirstTime ==
    \E il \in Seqs(InboxEntries, 1), gl \in Seqs(GeneratedEntries, 1),
       wf \in BOOLEAN, persisted \in SUBSET Guids :
        StartWith([NoEnv EXCEPT
                      !.mode = "LoadAll",
                      !.settingsString = None,
                      !.DefaultJson = DocWith(il, None),
                      !.UserSettingsJson = UserSettingsTemplate,
                      !.generators = << [namespace |-> "Generator", profiles |-> gl] >>,
                      !.writeFails = wf],
                  persisted)

\* Documents whose profiles have names, with and without a defaultProfile and
\* color schemes: what the default profile string is looked up in.
NamedEntries ==
    {ProfileJson(Some(n), Some(g), None, None, None, None) :
        n \in {NameA, NameB, BraceName}, g \in Guids}
DefaultProfileStrings ==
    {None, Some(GuidToString("g1")), Some(GuidToString("g3")), Some(NameA),
     Some(BraceName), Some(<< "C" >>)}

InitNamed ==
    \E n \in 1..(MaxProfiles - 1) :
    \E il \in [1..n -> NamedEntries], d \in DefaultProfileStrings,
       cs \in {{}, {"Campbell"}}, u \in {None, Some(EmptyDoc)} :
        StartWith([NoEnv EXCEPT
                      !.mode = "Default",
                      !.userJSON = u,
                      !.inboxJSON = Some([EmptyDoc EXCEPT !.list = il,
                                                          !.defaultProfile = d,
                                                          !.schemes = cs])],
                  {})

\* Profiles that name color schemes, defined ("Campbell", "One") and not
\* ("Nope"), on the default appearance and on an unfocused appearance
SchemeChoices ==
    {None, Some("Campbell"), Some("Nope")} \X {None, Some(None), Some(Some("Nope"))}
\* The k-th profile of the list has the k-th GUID
SchemeEntry(k, c) ==
    [ProfileJson(None, Some(<< "g1", "g2", "g3" >>[k]), None, None, c[1], None)
        EXCEPT !.unfocused = c[2]]
InboxSchemeEntries ==
    {ProfileJson(None, Some("g1"), None, None, sc, None) :
        sc \in {None, Some("Nope"), Some("One")}}

\* CascadiaSettings(userJSON, inboxJSON) on documents with color schemes
InitSchemes ==
    \E n \in 1..(MaxProfiles - 1) :
    \E cs \in [1..n -> SchemeChoices], il \in Seqs(InboxSchemeEntries, 1),
       ds \in {None, Some("Nope")}, us \in {{}, {"Campbell"}},
       is \in {{"Campbell"}, {"Campbell", "One"}} :
        StartWith([NoEnv EXCEPT
                      !.mode = "Default",
                      !.userJSON = Some([EmptyDoc EXCEPT
                                            !.list = [k \in 1..n |-> SchemeEntry(k, cs[k])],
                                            !.defaults.scheme = ds,
                                                         !.schemes = us]),
                      !.inboxJSON = Some([EmptyDoc EXCEPT !.list = il,
                                                          !.schemes = is])],
                  {})

\* LoadAll with disabledProfileSources in settings.json and in the built-in
\* defaults, one generator and one fragment source
DisabledSources == {None, Some({"Generator"}), Some({"Fragment"}),
                    Some({"Generator", "Fragment"})}

InitDisabled ==
    \E u \in FileEntries, g \in GeneratedEntries, f \in FragmentEntries,
       ud \in DisabledSources, id \in {None, Some({"Generator"})},
       fs \in {{}, {"One"}} :
        StartWith([NoEnv EXCEPT
                      !.mode = "LoadAll",
                      !.settingsString = Some([DocWith(<< u >>, None) EXCEPT
                                                  !.disabledProfileSources = ud]),
                      !.DefaultJson = [EmptyDoc EXCEPT !.disabledProfileSources = id,
                                                       !.schemes = {"Campbell"}],
                      !.generators = << [namespace |-> "Generator", profiles |-> << g >>] >>,
                      !.fragments = << [source |-> "Fragment",
                                        content |-> [DocWith(<< f >>, None) EXCEPT
                                                        !.schemes = fs]] >>],
                  {})

\* LoadAll with two fragment sources that define color schemes
FragmentSchemes == {{}, {"One"}, {"Campbell"}, {"One", "Two"}}

InitFragmentSchemes ==
    \E u \in FileEntries, s1 \in FragmentSchemes, s2 \in FragmentSchemes,
       us \in {{}, {"One"}}, k1 \in {"ok", "syntax"} :
        StartWith([NoEnv EXCEPT
                      !.mode = "LoadAll",
                      !.settingsString = Some([DocWith(<< u >>, None) EXCEPT !.schemes = us]),
                      !.DefaultJson = [EmptyDoc EXCEPT !.schemes = {"Campbell"}],
                      !.fragments = << [source |-> "Fragment",
                                        content |-> [EmptyDoc EXCEPT !.schemes = s1,
                                                                     !.kind = k1]],
                                       [source |-> "Fragment2",
                                        content |-> [EmptyDoc EXCEPT !.schemes = s2]] >>],
                  {})

\* CascadiaSettings(userJSON, inboxJSON) on documents that set "hidden" in
\* profiles.defaults and in the profiles, and name the default profile by
\* GUID or by name
InitHidden ==
    \E dh \in {None, Some(TRUE), Some(FALSE)}, h1 \in {None, Some(FALSE)},
       h2 \in {None, Some(TRUE), Some(FALSE)}, f \in {None, Some("udef")},
       d \in {None, Some(GuidToString("g2")), Some(DefaultName)} :
        StartWith([NoEnv EXCEPT
                      !.mode = "Default",
                      !.userJSON = Some([DocWith(<< ProfileJson(None, Some("g1"), h1, None, None, None),
                                                    ProfileJson(None, Some("g2"), h2, f, None, None) >>,
                                                 f)
                                            EXCEPT !.defaults.hidden = dh,
                                                   !.defaultProfile = d]),
                      !.inboxJSON = Some(EmptyDoc)],
                  {})

\* Names that CreateNewProfile and DuplicateProfile try first
CrowdedNames ==
    {NameA, NameA \o << "(", "Copy", ")" >>, NameA \o << "(", "Copy", "2", ")" >>,
     << "Profile", "2" >>, << "Profile", "3" >>, << "Profile", "4" >>}

\* CascadiaSettings(userJSON, inboxJSON) on a user document whose profiles
\* already have such names; the k-th profile has the k-th GUID
InitCrowded ==
    \E n \in 1..MaxProfiles :
    \E names \in [1..n -> CrowdedNames] :
        StartWith([NoEnv EXCEPT
                      !.mode = "Default",
                      !.userJSON = Some([EmptyDoc EXCEPT
                                            !.list = [k \in 1..n |->
                                                ProfileJson(Some(names[k]),
                                                            Some(<< "g1", "g2", "g3" >>[k]),
                                                            None, None, None, None)]]),
                      !.inboxJSON = Some(EmptyDoc)],
                  {})

\* One document whose list repeats GUIDs, explicit and derived from the name,
\* and holds objects that are no profiles.
ParseEntries ==
    {ProfileJson(Some(NameA), None, None, None, None, None),
     ProfileJson(None, Some("g1"), None, Some("first"), None, None),
     ProfileJson(Some(NameB), Some("g1"), Some(TRUE), Some("second"), None, None),
     ProfileJson(None, Some("g2"), None, None, None, None),
     EmptyProfileJson}

InitParse ==
    \E n \in 0..MaxProfiles :
    \E ul \in [1..n -> ParseEntries] :
        StartWith([NoEnv EXCEPT !.mode = "Default",
                                !.userJSON = Some(DocWith(ul, None)),
                                !.inboxJSON = None], {})

\* Malformed documents
InitMalformed ==
    \E m \in {"LoadAll", "Default"}, ku \in {"ok", "syntax", "type"},
       ki \in {"ok", "syntax", "type"}, e \in FileEntries :
        /\ ku # "ok" \/ ki # "ok"
        /\ m = "LoadAll" => ki = "ok"
        /\ StartWith([NoEnv EXCEPT
                         !.mode = m,
                         !.userJSON = Some([DocWith(<< e >>, None) EXCEPT !.kind = ku]),
                         !.inboxJSON = Some([DocWith(<< e >>, None) EXCEPT !.kind = ki]),
                         !.settingsString = Some([DocWith(<< e >>, None) EXCEPT !.kind = ku]),
                         !.DefaultJson = DocWith(<< e >>, None)],
                     {})

(***************************************************************************)
(* The calls of the settings UI on a loaded object: the one the load       *)
(* produced ("settings") or the one Copy() returned ("copied").            *)
(***************************************************************************)
\* The number of profiles the calls add to one object
MaxNewProfiles == 1

Targets == {"settings"} \cup (IF copied.made THEN {"copied"} ELSE {})

TargetObject(t) == IF t = "settings" THEN settings ELSE copied.settings

\* The call on object t returned: r = [h, settings] is the heap and the object after it.
Called(t, r) ==
    /\ heap' = r.h
    /\ settings' = IF t = "settings" THEN r.settings ELSE settings
    /\ copied' = IF t = "copied" THEN [copied EXCEPT !.settings = r.settings] ELSE copied
    /\ pc' = "SettingsUI"
    /\ UNCHANGED << previous, env, gheap, inboxSettings, userSettings, warnings, ignoredNamespaces,
                    userProfileCount, appState, thrown, written >>

NamesOf(h, all) == {Name(h, all[k]) : k \in 1..Len(all)}

\* A name search that stops at its first candidate
CreateNewProfileNameUnchecked(h, all, count, candidateIndex) ==
    << "Profile", ToString(count + candidateIndex) >>

RECURSIVE CreateNewProfileName(_, _, _, _)
\* fmt::format(L"Profile {}", count + candidateIndex): the first candidate
\* that no profile has, or the last one.
CreateNewProfileName(h, all, count, candidateIndex) ==
    IF \/ candidateIndex = count - 1
       \/ << "Profile", ToString(count + candidateIndex) >> \notin NamesOf(h, all)
    THEN << "Profile", ToString(count + candidateIndex) >>
    ELSE CreateNewProfileName(h, all, count, candidateIndex + 1)

RECURSIVE DuplicateProfileName(_, _, _, _, _)
\* "{source} (Copy)", then "{source} (Copy N)" for N = 2, 3, ...
DuplicateProfileName(h, all, newName, sourceName, candidateIndex) ==
    IF candidateIndex = Len(all) + 1 \/ newName \notin NamesOf(h, all)
    THEN newName
    ELSE DuplicateProfileName(h, all,
                              sourceName \o << "(", "Copy", ToString(candidateIndex + 2), ")" >>,
                              sourceName, candidateIndex + 1)

\* CascadiaSettings::_createNewProfile: the heap with the new profile, whose id is Len
CreateNewProfileNamed(h, baseLayerProfile, name) ==
    [ReproduceProfile(h, baseLayerProfile) EXCEPT
        ![Len(h) + 1].guid = Some("new" \o ToString(Len(h) + 1)),
        ![Len(h) + 1].name = Some(name)]

\* _allProfiles.Append(p); _activeProfiles.Append(p) for the newest object p of h
AppendedToBoth(h, c) ==
    [h |-> h,
     settings |-> [c EXCEPT !.allProfiles = Append(@, Len(h)),
                            !.activeProfiles = Append(@, Len(h))]]

\* Every setting that source resolves from some object is duplicated.
NeedsDuplicationOfAll(h, source, f) == Owner(h, source, f) # 0

\* NEEDS_DUPLICATION(f): source has f itself, or inherits it from a profile
\* whose origin is not ProfilesDefaults
NeedsDuplication(h, source, f) ==
    \/ h[source][f] # None
    \/ /\ OwnerInParents(h, h[source].parents, f) # 0
       /\ h[OwnerInParents(h, h[source].parents, f)].origin # "ProfilesDefaults"

\* The settings of source are set on the newest object of h.
DuplicateSettings(h, source) ==
    [h EXCEPT
        ![Len(h)].F = IF NeedsDuplication(h, source, "F")
                      THEN Some(Resolved(h, source, "F")) ELSE @,
        ![Len(h)].scheme = IF NeedsDuplication(h, source, "scheme")
                           THEN Some(ColorSchemeName(h, source)) ELSE @,
        ![Len(h)].unfocused = IF NeedsDuplication(h, source, "unfocused")
                              THEN h[Owner(h, source, "unfocused")].unfocused ELSE @]

CreateNewProfile ==
    /\ pc \in {"done", "SettingsUI"}
    /\ \E t \in Targets :
        /\ TargetObject(t).loaded
        /\ Len(TargetObject(t).allProfiles) < Len(userSettings.profiles) + MaxNewProfiles
        /\ Called(t, AppendedToBoth(
                         CreateNewProfileNamed(
                             heap, TargetObject(t).baseLayerProfile,
                             CreateNewProfileName(heap, TargetObject(t).allProfiles,
                                                  Len(TargetObject(t).allProfiles) + 1, 0)),
                         TargetObject(t)))

DuplicateProfile ==
    /\ pc \in {"done", "SettingsUI"}
    /\ \E t \in Targets :
        /\ TargetObject(t).loaded
        /\ Len(TargetObject(t).allProfiles) < Len(userSettings.profiles) + MaxNewProfiles
        /\ \E source \in Range(TargetObject(t).allProfiles) :
            Called(t, AppendedToBoth(
                          DuplicateSettings(
                              CreateNewProfileNamed(
                                  heap, TargetObject(t).baseLayerProfile,
                                  DuplicateProfileName(
                                      heap, TargetObject(t).allProfiles,
                                      Name(heap, source) \o << "(", "Copy", ")" >>,
                                      Name(heap, source), 0)),
                              source),
                          TargetObject(t)))

\* The names UpdateColorSchemeReferences is called with
OldNames == {"Campbell", "One"}
NewNames == {"Renamed"}

\* The default appearance of p names oldName itself: it is set to newName.
UpdateDefaultAppearance(h, p, oldName, newName) ==
    IF h[p].scheme # None /\ ColorSchemeName(h, p) = oldName
    THEN [h EXCEPT ![p].scheme = Some(newName)]
    ELSE h

\* p has an unfocused appearance that names oldName itself: it is set to newName.
UpdateUnfocusedAppearance(h, p, oldName, newName) ==
    IF /\ HasUnfocusedAppearance(h, p)
       /\ h[Owner(h, p, "unfocused")].unfocused[1] # None
       /\ UnfocusedColorSchemeName(h, p) = oldName
    THEN [h EXCEPT ![Owner(h, p, "unfocused")].unfocused = Some(Some(newName))]
    ELSE h

RECURSIVE UpdateProfileReferences(_, _, _, _)
\* for (const auto& profile : _allProfiles)
UpdateProfileReferences(h, all, oldName, newName) ==
    IF all = << >> THEN h
    ELSE UpdateProfileReferences(
             UpdateUnfocusedAppearance(
                 UpdateDefaultAppearance(h, Head(all), oldName, newName),
                 Head(all), oldName, newName),
             Tail(all), oldName, newName)

\* The heap after c.UpdateColorSchemeReferences(oldName, newName)
UpdatedColorSchemeReferences(h, c, oldName, newName) ==
    UpdateProfileReferences(
        IF c.baseLayerProfile # 0
        THEN UpdateDefaultAppearance(h, c.baseLayerProfile, oldName, newName)
        ELSE h,
        c.allProfiles, oldName, newName)

UpdateColorSchemeReferences ==
    /\ pc \in {"done", "SettingsUI"}
    /\ \E t \in Targets, oldName \in OldNames, newName \in NewNames :
        /\ TargetObject(t).loaded
        /\ Called(t, [h |-> UpdatedColorSchemeReferences(heap, TargetObject(t),
                                                         oldName, newName),
                      settings |-> TargetObject(t)])

(***************************************************************************)
(* CascadiaSettings::ToJson, and the loads that read what it wrote.        *)
(***************************************************************************)
\* Profile::ToJson: the settings the profile object has itself.
ProfileToJson(p) ==
    [name |-> p.name, guid |-> p.guid, hidden |-> p.hidden, F |-> p.F,
     scheme |-> p.scheme, unfocused |-> p.unfocused,
     updates |-> IF p.updates = NilGuid THEN None ELSE Some(p.updates)]

RECURSIVE ToJsonList(_, _)
\* profilesList: prof->ToJson() of every entry that is not Deleted()
ToJsonList(h, all) ==
    IF all = << >> THEN << >>
    ELSE IF h[Head(all)].deleted THEN ToJsonList(h, Tail(all))
    ELSE << ProfileToJson(h[Head(all)]) >> \o ToJsonList(h, Tail(all))

\* A serialization that leaves out the "defaultProfile" key
ToJsonWithoutDefaultProfile(h, gh, c) ==
    [kind |-> "ok",
     defaultProfile |-> None,
     disabledProfileSources |-> gh[c.globals].disabledProfileSources,
     schemes |-> DOMAIN gh[c.globals].colorSchemes,
     defaults |-> IF c.baseLayerProfile # 0 THEN ProfileToJson(h[c.baseLayerProfile])
                  ELSE EmptyProfileJson,
     list |-> ToJsonList(h, c.allProfiles)]

\* GlobalAppSettings::ToJson and the members CascadiaSettings::ToJson adds
ToJson(h, gh, c) ==
    [kind |-> "ok",
     defaultProfile |-> gh[c.globals].unparsedDefaultProfile,
     disabledProfileSources |-> gh[c.globals].disabledProfileSources,
     schemes |-> DOMAIN gh[c.globals].colorSchemes,
     defaults |-> IF c.baseLayerProfile # 0 THEN ProfileToJson(h[c.baseLayerProfile])
                  ELSE EmptyProfileJson,
     list |-> ToJsonList(h, c.allProfiles)]

\* A new load starts with the inputs e; what the last one read and made is kept.
Restarted(e) ==
    /\ previous' = [made |-> TRUE, env |-> env, heap |-> heap, gheap |-> gheap,
                    settings |-> settings]
    /\ env' = e
    /\ pc' = "SettingsLoader"
    /\ heap' = << >>
    /\ gheap' = << >>
    /\ inboxSettings' = NoSettings
    /\ userSettings' = NoSettings
    /\ warnings' = << >>
    /\ ignoredNamespaces' = {}
    /\ userProfileCount' = 0
    /\ settings' = NoContainer
    /\ thrown' = NoException
    /\ written' = FALSE
    /\ copied' = NoCopy
    /\ UNCHANGED appState

\* CascadiaSettings::LoadAll runs again: settings.json holds what
\* WriteSettingsToDisk wrote, or what it held before; the generators, the
\* fragments and the built-in defaults are the same, ApplicationState is what
\* the last load left.
LoadAllAgain ==
    /\ pc = "done"
    /\ env.mode = "LoadAll"
    /\ ~previous.made
    /\ ~copied.made
    /\ thrown = NoException
    /\ Restarted([env EXCEPT
                     !.generatedProfiles = appState,
                     !.settingsString = IF written THEN Some(ToJson(heap, gheap, settings))
                                        ELSE @])

\* CascadiaSettings(userJSON, inboxJSON) on the ToJson() of the loaded object
\* and the same inboxJSON
LoadFromToJson ==
    /\ pc = "done"
    /\ env.mode = "Default"
    /\ settings.loaded
    /\ ~previous.made
    /\ ~copied.made
    /\ Restarted([env EXCEPT !.userJSON = Some(ToJson(heap, gheap, settings))])

Init ==
    \/ InitDefault
    \/ InitLoadAll
    \/ InitFirstTime
    \/ InitNamed
    \/ InitSchemes
    \/ InitDisabled
    \/ InitFragmentSchemes
    \/ InitHidden
    \/ InitParse
    \/ InitMalformed
    \/ InitCrowded

Next ==
    \/ SettingsLoaderCtor
    \/ GenerateProfiles
    \/ FillBlanksInDefaultsJson
    \/ MergeInboxIntoUserProfiles
    \/ MergeFragmentsIntoUserProfiles
    \/ DisableDeletedProfiles
    \/ FinalizeLayering
    \/ CascadiaSettingsCtor
    \/ WriteSettingsToDisk
    \/ Copy
    \/ CreateNewProfile
    \/ DuplicateProfile
    \/ UpdateColorSchemeReferences
    \/ LoadAllAgain
    \/ LoadFromToJson

Spec == Init /\ [][Next]_vars

(***************************************************************************)
(* Properties.                                                             *)
(***************************************************************************)

\* The least element of a non-empty set of numbers.
Least(S) == CHOOSE k \in S : \A j \in S : k <= j

RECURSIVE SelfAndAncestors(_, _)
\* The objects reachable from id through parent links, id included.
SelfAndAncestors(h, id) ==
    {id} \cup UNION {SelfAndAncestors(h, q) : q \in Range(h[id].parents)}

\* id sets f itself or has an ancestor that does.
Yields(h, id, f) == \E a \in SelfAndAncestors(h, id) : HasField(h, a, f)

InheritableFields == {"name", "hidden", "F", "scheme"}

\* The load ended and produced a settings object.
Loaded == pc = "done" /\ settings.loaded

\* C1: the resolved value of a field of a profile is the profile's own
\* explicit value when it has one; otherwise it is the resolved value of the
\* first parent, in parent-list order, that yields a value (itself or through
\* its ancestors); when no parent yields a value it is the global default.
C1_FieldResolution ==
    \A id \in 1..Len(heap) : \A f \in InheritableFields :
        LET ps == heap[id].parents
            yielding == {k \in 1..Len(ps) : Yields(heap, ps[k], f)}
        IN  Resolved(heap, id, f) =
                IF HasField(heap, id, f) THEN heap[id][f][1]
                ELSE IF yielding # {} THEN Resolved(heap, ps[Least(yielding)], f)
                ELSE GlobalDefault(f)

\* A profile with parents [P1, P2] that does not set F, whose P1 yields no
\* value while P2 sets F: it resolves to the value of P2.
C1_Witness ==
    \E id \in 1..Len(heap) :
        /\ Len(heap[id].parents) = 2
        /\ ~HasField(heap, id, "F")
        /\ ~Yields(heap, heap[id].parents[1], "F")
        /\ HasField(heap, heap[id].parents[2], "F")
        /\ Resolved(heap, id, "F") = heap[heap[id].parents[2]].F[1]

(***************************************************************************)
(* The inputs as the user sees them: the settings file, and the built-in   *)
(* defaults together with what the generators and the fragments produce.   *)
(***************************************************************************)
\* The document of the user's settings file
UserFile ==
    IF env.mode = "LoadAll"
    THEN (IF FirstTimeSetup THEN env.UserSettingsJson ELSE env.settingsString[1])
    ELSE ValueOr(env.userJSON, EmptyDoc)

\* The document of the built-in defaults
BuiltInFile ==
    IF env.mode = "LoadAll" THEN env.DefaultJson ELSE ValueOr(env.inboxJSON, EmptyDoc)

\* The GUID a profile object of a document stands for
EntryGuid(e) ==
    IF e.guid # None THEN e.guid[1]
    ELSE GenerateGuidForProfile(ValueOr(e.name, DefaultName))

\* The positions of the valid profile objects of a list that stand for GUID g
EntriesFor(list, g) ==
    {k \in 1..Len(list) : IsValidProfileObject(list[k]) /\ EntryGuid(list[k]) = g}

GuidsOf(list) == {EntryGuid(list[k]) : k \in {j \in 1..Len(list) : IsValidProfileObject(list[j])}}

\* The profile objects the enabled generators produce
GeneratedList ==
    IF env.mode # "LoadAll" \/ env.generators = << >> THEN << >>
    ELSE IF env.generators[1].namespace \in ValueOr(UserFile.disabledProfileSources, {})
    THEN << >> ELSE env.generators[1].profiles

\* The profile objects of the fragments that are new profiles
FragmentList ==
    IF env.mode # "LoadAll" \/ env.fragments = << >> THEN << >>
    ELSE env.fragments[1].content.list

AllGuids == Guids \cup {"g3"}

\* C2: a fragment profile with updates = G, G being in the user profile
\* index, makes a field F that the fragment and the inbox/generated profile
\* for G both set (profiles.defaults not setting it) resolve on profile G to
\* the fragment's value, while a value set on the user's own record for G wins.
C2_FragmentPatchPrecedence ==
    (Loaded /\ env.mode = "LoadAll") =>
        \A p \in Range(settings.allProfiles) :
            LET G == Guid(heap, p)
                patches == {fp \in 1..Len(heap) :
                               /\ heap[fp].origin = "Fragment"
                               /\ heap[fp].updates = G
                               /\ HasField(heap, fp, "F")}
                inboxSets == \E q \in 1..Len(heap) :
                                /\ heap[q].origin \in {"InBox", "Generated"}
                                /\ Guid(heap, q) = G
                                /\ HasField(heap, q, "F")
            IN  /\ HasField(heap, p, "F") => Resolved(heap, p, "F") = heap[p].F[1]
                /\ ( /\ G \in DOMAIN userSettings.profilesByGuid
                      /\ patches # {}
                      /\ inboxSets
                      /\ ~HasField(heap, p, "F")
                      /\ ~Yields(heap, settings.baseLayerProfile, "F") )
                   => \E fp \in patches : Resolved(heap, p, "F") = heap[fp].F[1]

\* C3: in LoadAll the user's settings file is the User source: its profiles
\* are the first userProfileCount profiles, and for every GUID that is both
\* in the user's file and in the built-in/generated set, a field that the
\* user's file sets resolves to the user's value.
C3_UserOverridesWin ==
    (Loaded /\ env.mode = "LoadAll") =>
        /\ userProfileCount = Cardinality(GuidsOf(UserFile.list))
        /\ \A G \in GuidsOf(UserFile.list) \cap (GuidsOf(BuiltInFile.list) \cup GuidsOf(GeneratedList)) :
              \A p \in Range(settings.allProfiles) :
                  LET e == UserFile.list[Least(EntriesFor(UserFile.list, G))]
                  IN  (Guid(heap, p) = G /\ e.F # None) => Resolved(heap, p, "F") = e.F[1]

\* C4: a GUID G of the persisted set that a built-in, generated or fragment
\* profile stands for and that is absent from the user's file has no
\* profile in activeProfiles after the load; a GUID that is not in the
\* persisted set, absent from the user's file and produced by an enabled
\* source as a profile that is not hidden has a profile in activeProfiles
\* and is in the persisted set after the load.
C4_DeletionSuppression ==
    (Loaded /\ env.mode = "LoadAll") =>
        \A G \in AllGuids \ GuidsOf(UserFile.list) :
            LET produced == BuiltInFile.list \o GeneratedList \o FragmentList
                first == produced[Least(EntriesFor(produced, G))]
            IN  (EntriesFor(produced, G) # {} /\ first.updates = None) =>
                    IF G \in env.generatedProfiles
                    THEN \A p \in Range(settings.activeProfiles) : Guid(heap, p) # G
                    ELSE first.hidden # Some(TRUE) =>
                            /\ \E p \in Range(settings.activeProfiles) : Guid(heap, p) = G
                            /\ G \in appState

\* The element of rank i (1 is the least) of a set of numbers
Nth(S, i) == CHOOSE k \in S : Cardinality({j \in S : j <= k}) = i

\* The state right after the SettingsLoader constructor has parsed both documents
AfterParse ==
    \/ pc = "GenerateProfiles"
    \/ pc = "MergeInboxIntoUserProfiles" /\ env.mode = "Default"

\* The positions of the valid profile objects of a list, and of those that
\* are the first one in document order with their GUID
ValidIn(list) == {k \in 1..Len(list) : IsValidProfileObject(list[k])}
FirstsIn(list) ==
    {k \in ValidIn(list) :
        \A j \in ValidIn(list) : j < k => EntryGuid(list[j]) # EntryGuid(list[k])}

\* ps holds exactly the first profile object of every GUID of the list, in
\* document order and with the settings of that object, and indexes them.
KeepsFirsts(ps, list) ==
    /\ Len(ps.profiles) = Cardinality(FirstsIn(list))
    /\ \A i \in 1..Len(ps.profiles) :
         LET e == list[Nth(FirstsIn(list), i)]
             o == heap[ps.profiles[i]]
         IN  /\ o.guid = Some(EntryGuid(e))
             /\ o.name = e.name /\ o.hidden = e.hidden /\ o.F = e.F
             /\ ps.profilesByGuid[EntryGuid(e)] = ps.profiles[i]
    /\ DOMAIN ps.profilesByGuid = GuidsOf(list)

\* C5: within one parsed source only the first profile object in document
\* order of every GUID (explicit, or derived from the name) is kept in the
\* profile list and in the GUID index, with its own settings; every later
\* one is dropped and adds exactly one DuplicateProfile warning, so that k
\* profiles sharing a GUID yield one profile and k-1 warnings.
C5_DuplicatesDropped ==
    AfterParse =>
        LET il == ValueOr(LoaderInboxJSON, EmptyDoc).list
            ul == ValueOr(LoaderUserJSON, EmptyDoc).list
        IN  /\ KeepsFirsts(inboxSettings, il)
            /\ KeepsFirsts(userSettings, ul)
            /\ Len(warnings) = (Cardinality(ValidIn(il)) - Cardinality(FirstsIn(il)))
                                + (Cardinality(ValidIn(ul)) - Cardinality(FirstsIn(ul)))
            /\ \A k \in 1..Len(warnings) : warnings[k] = WarnDuplicateProfile

\* Three profile objects of one document share a GUID (one of them through
\* its name): one profile and two warnings.
C5_Witness ==
    /\ AfterParse
    /\ Cardinality(EntriesFor(ValueOr(LoaderUserJSON, EmptyDoc).list, "g1")) = 3
    /\ \E k \in EntriesFor(ValueOr(LoaderUserJSON, EmptyDoc).list, "g1") :
          ValueOr(LoaderUserJSON, EmptyDoc).list[k].guid = None
    /\ Len(userSettings.profiles) = 1
    /\ warnings = << WarnDuplicateProfile, WarnDuplicateProfile >>

\* The source objects of the copy: what the source container reaches
CopySources ==
    UNION {SelfAndAncestors(heap, r) :
              r \in {settings.baseLayerProfile} \cup Range(settings.allProfiles)}

\* C6: Copy() clones every profile object that the source reaches through
\* parent links exactly once: the clones are as many as the sources, the
\* parent lists of the clones are the clones of the parents, and the clone
\* of the base layer, which all the copied profiles that inherited from it
\* share, is the base layer of the copy.  The state is the one Copy()
\* returns in, before any later call on the original or the copy.
C6_CopyPreservesSharing ==
    (copied.made /\ pc = "done") =>
        LET v == copied.visited
            clones == {v[x] : x \in DOMAIN v}
        IN  /\ DOMAIN v = CopySources
            /\ \A x, y \in DOMAIN v : v[x] = v[y] => x = y
            /\ clones = (Len(heap) - Cardinality(CopySources) + 1)..Len(heap)
            /\ clones \cap CopySources = {}
            /\ \A x \in DOMAIN v :
                  heap[v[x]].parents = [k \in 1..Len(heap[x].parents) |-> v[heap[x].parents[k]]]
            /\ copied.settings.baseLayerProfile = v[settings.baseLayerProfile]
            /\ copied.settings.allProfiles =
                  [k \in 1..Len(settings.allProfiles) |-> v[settings.allProfiles[k]]]
            /\ \A k \in 1..Len(settings.allProfiles) :
                  settings.baseLayerProfile \in Range(heap[settings.allProfiles[k]].parents)
                  => copied.settings.baseLayerProfile
                         \in Range(heap[copied.settings.allProfiles[k]].parents)

\* Two profiles share the base layer and another parent: the copy has one
\* clone of each.
C6_Witness ==
    /\ copied.made
    /\ pc = "done"
    /\ Len(settings.allProfiles) >= 2
    /\ \A k \in 1..Len(settings.allProfiles) :
          settings.baseLayerProfile \in Range(heap[settings.allProfiles[k]].parents)
    /\ \A k \in 1..Len(copied.settings.allProfiles) :
          heap[copied.settings.allProfiles[k]].parents[1] = copied.settings.baseLayerProfile
    /\ copied.settings.baseLayerProfile # settings.baseLayerProfile

\* User JSON {} or empty, and an inbox JSON that holds nothing but one
\* profile with a name and a GUID that is not hidden
MinimalLoad ==
    /\ env.mode = "Default"
    /\ env.userJSON \in {None, Some(EmptyDoc)}
    /\ env.inboxJSON # None
    /\ Len(env.inboxJSON[1].list) = 1
    /\ env.inboxJSON[1] = [EmptyDoc EXCEPT !.list = env.inboxJSON[1].list]
    /\ env.inboxJSON[1].list[1].name # None
    /\ env.inboxJSON[1].list[1].guid # None
    /\ env.inboxJSON[1].list[1] =
          ProfileJson(env.inboxJSON[1].list[1].name, env.inboxJSON[1].list[1].guid,
                      None, None, None, None)

\* What the minimal load yields, but for the warnings
MinimalLoadSucceeds ==
    /\ thrown = NoException
    /\ settings.loaded
    /\ Len(settings.allProfiles) = 1
    /\ Len(settings.activeProfiles) = 1
    /\ gheap[settings.globals].defaultProfile = env.inboxJSON[1].list[1].guid[1]
    /\ Guid(heap, settings.allProfiles[1]) = env.inboxJSON[1].list[1].guid[1]

\* C7 (amended): the minimal load succeeds, allProfiles and activeProfiles
\* have exactly one entry, the default profile is G, and the warnings are
\* MissingDefaultProfile (no defaultProfile is given, the first profile is
\* taken) followed by UnknownColorScheme (no color scheme is defined).
C7_MinimalLoad ==
    (MinimalLoad /\ pc = "done") =>
        /\ MinimalLoadSucceeds
        /\ settings.warnings = << WarnMissingDefaultProfile, WarnUnknownColorScheme >>

C7_Witness == MinimalLoad /\ Loaded /\ Len(settings.warnings) = 2

\* C7 as stated: the minimal load succeeds with one profile, one active
\* profile, the default profile G and an empty warnings list.
C7_AsStated ==
    (MinimalLoad /\ pc = "done") =>
        /\ MinimalLoadSucceeds
        /\ settings.warnings = << >>

\* The container constructor ran on a finished loader
ConstructionDone == pc \in {"WriteSettingsToDisk", "done"} /\ userSettings.globals # 0

\* The construction failed with that error: the constructor threw it, or
\* LoadAll caught it and stored it.
FailedWith(err) ==
    \/ thrown = [type |-> "SettingsException", error |-> err]
    \/ settings.loadError = Some(err)

\* C8: no exception leaves LoadAll; when the user's file is malformed, or
\* the merged graph has no profile or no visible profile, LoadAll returns an
\* object that is not loaded and carries the error descriptor.
C8_LoadAllNeverCrashes ==
    (env.mode = "LoadAll" /\ pc = "done") =>
        /\ thrown = NoException
        /\ UserFile.kind # "ok" =>
              /\ ~settings.loaded
              /\ settings.loadError # None \/ settings.deserializationErrorMessage # None
        /\ ( /\ userSettings.globals # 0
              /\ \A p \in Range(userSettings.profiles) : Hidden(heap, p) )
           => (~settings.loaded /\ settings.loadError # None)

\* C9: the construction fails with NoProfiles exactly when the merged list
\* is empty, with AllProfilesHidden exactly when it is not empty and every
\* profile is hidden, and succeeds otherwise; a constructed container has a
\* profile in allProfiles and one in activeProfiles.
C9_FatalLoadErrors ==
    ConstructionDone =>
        LET all == userSettings.profiles
            allHidden == \A p \in Range(all) : Hidden(heap, p)
        IN  /\ FailedWith(ErrNoProfiles) <=> all = << >>
            /\ FailedWith(ErrAllProfilesHidden) <=> (all # << >> /\ allHidden)
            /\ settings.loaded <=> (all # << >> /\ ~allHidden)
            /\ settings.loaded =>
                  /\ thrown = NoException
                  /\ settings.loadError = None
                  /\ Len(settings.allProfiles) >= 1
                  /\ Len(settings.activeProfiles) >= 1

\* A list of two profiles that are both hidden: AllProfilesHidden
C9_Witness ==
    /\ ConstructionDone
    /\ Len(userSettings.profiles) = 2
    /\ FailedWith(ErrAllProfilesHidden)
    /\ ~settings.loaded

\* The defaultProfile string of the documents: the user's, else the built-in one
DefaultProfileString ==
    ValueOr(UserFile.defaultProfile, ValueOr(BuiltInFile.defaultProfile, EmptyStr))

Count(seq, x) == Cardinality({k \in 1..Len(seq) : seq[k] = x})

\* C10: after a construction globals.DefaultProfile is the GUID of a profile
\* of allProfiles: of the profile that the defaultProfile string names, as
\* GUID or as name, when it matches one, and no MissingDefaultProfile
\* warning is recorded then; otherwise of the first profile, with exactly
\* one MissingDefaultProfile warning.
C10_DefaultProfileRepair ==
    (Loaded /\ env.mode = "Default") =>
        LET str == DefaultProfileString
            all == settings.allProfiles
            dp == gheap[settings.globals].defaultProfile
            byGuid == {k \in 1..Len(all) : GuidToString(Guid(heap, all[k])) = str}
            byName == {k \in 1..Len(all) : Name(heap, all[k]) = str}
            missing == Count(settings.warnings, WarnMissingDefaultProfile)
        IN  /\ \E k \in 1..Len(all) : Guid(heap, all[k]) = dp
            /\ IF byGuid # {}
               THEN dp = Guid(heap, all[Least(byGuid)]) /\ missing = 0
               ELSE IF byName # {}
               THEN dp = Guid(heap, all[Least(byName)]) /\ missing = 0
               ELSE dp = Guid(heap, all[1]) /\ missing = 1

\* The names of the global color schemes of a container
SchemesOf(gh, c) == DOMAIN gh[c.globals].colorSchemes

\* Profile p names, on its default appearance or on its unfocused
\* appearance, a color scheme that is not in the set schemes.
NamesUnknownScheme(h, p, schemes) ==
    \/ ColorSchemeName(h, p) \notin schemes
    \/ HasUnfocusedAppearance(h, p) /\ UnfocusedColorSchemeName(h, p) \notin schemes

\* C11: the validation of a construction that succeeds leaves exactly one
\* UnknownColorScheme warning if a profile of allProfiles named, on its
\* default or unfocused appearance, a color scheme that is not among the
\* global color schemes, however many profiles and appearances did, and no
\* such warning otherwise.
C11_AggregateWarning ==
    [][(pc = "CascadiaSettings" /\ settings'.loaded) =>
          Count(settings'.warnings, WarnUnknownColorScheme) =
              IF \E p \in Range(userSettings.profiles) :
                     NamesUnknownScheme(heap, p, SchemesOf(gheap', settings'))
              THEN 1 ELSE 0]_vars

\* Two profiles with an unknown scheme on both appearances, one warning;
\* the default scheme name "Campbell" is defined.
C11_Witness ==
    /\ Loaded
    /\ env.userJSON # None
    /\ Len(env.userJSON[1].list) = 2
    /\ \A k \in 1..2 : /\ env.userJSON[1].list[k].scheme = Some("Nope")
                       /\ env.userJSON[1].list[k].unfocused = Some(Some("Nope"))
    /\ Len(settings.allProfiles) = 2
    /\ "Campbell" \in SchemesOf(gheap, settings)
    /\ Count(settings.warnings, WarnUnknownColorScheme) = 1

\* C12: after the validation every profile of allProfiles resolves the
\* color scheme name of its default appearance, and of its unfocused
\* appearance if it has one, to a global color scheme, also when the
\* unknown name came from a parent.
C12_EveryProfileHasValidScheme ==
    Loaded => \A p \in Range(settings.allProfiles) :
                  ~NamesUnknownScheme(heap, p, SchemesOf(gheap, settings))

\* The load found dynamic profiles that ApplicationState did not hold
FoundNewGeneratedProfiles == appState # env.generatedProfiles

\* C13: a LoadAll that succeeds has written the settings file by its end if
\* it created the file (first start) or found new generated profiles,
\* unless the write itself failed.
C13_WriteBackOnDiscovery ==
    (env.mode = "LoadAll" /\ Loaded /\ ~env.writeFails
        /\ (FirstTimeSetup \/ FoundNewGeneratedProfiles))
    => written

\* The namespaces that the user's settings file disables
DisabledByUser == ValueOr(UserFile.disabledProfileSources, {})

\* C14: in LoadAll a generator whose namespace the user's settings file
\* lists in disabledProfileSources contributes no profile, and a fragment
\* source that it lists is neither parsed nor merged.
C14_DisabledProfileSources ==
    (env.mode = "LoadAll" /\ pc # "SettingsLoader") =>
        /\ \A x \in 1..Len(heap) :
              heap[x].origin = "Generated" => heap[x].source \notin DisabledByUser
        /\ (\A k \in 1..Len(env.fragments) : env.fragments[k].source \in DisabledByUser)
           => \A x \in 1..Len(heap) : heap[x].origin # "Fragment"

\* FinalizeLayering has run and the container is not built yet
AfterFinalizeLayering == pc = "CascadiaSettings"

\* The parents of profile p other than the base layer that yield field f
OtherParentsYielding(p, f) ==
    {k \in 1..Len(heap[p].parents) :
        /\ heap[p].parents[k] # userSettings.baseLayerProfile
        /\ Yields(heap, heap[p].parents[k], f)}

\* C15 (amended): after FinalizeLayering every profile of
\* userSettings.profiles has the user's base layer (profiles.defaults) as
\* its parent at position 0, and the values of profiles.defaults have the
\* highest precedence among the parents: a field that profiles.defaults
\* yields resolves to that value also when another parent sets it, and the
\* profile's own explicit value wins over both.
C15_BaseLayerFirst ==
    AfterFinalizeLayering =>
        \A p \in Range(userSettings.profiles) :
            /\ heap[p].parents # << >>
            /\ heap[p].parents[1] = userSettings.baseLayerProfile
            /\ HasField(heap, p, "F") => Resolved(heap, p, "F") = heap[p].F[1]
            /\ (~HasField(heap, p, "F") /\ Yields(heap, userSettings.baseLayerProfile, "F"))
               => Resolved(heap, p, "F") = Resolved(heap, userSettings.baseLayerProfile, "F")

\* profiles.defaults and an inbox parent both set F: the value of
\* profiles.defaults is the resolved one.
C15_Witness ==
    /\ AfterFinalizeLayering
    /\ \E p \in Range(userSettings.profiles) :
          /\ ~HasField(heap, p, "F")
          /\ HasField(heap, userSettings.baseLayerProfile, "F")
          /\ OtherParentsYielding(p, "F") # {}
          /\ Resolved(heap, p, "F") = heap[userSettings.baseLayerProfile].F[1]
          /\ Resolved(heap, p, "F")
                # Resolved(heap, heap[p].parents[Least(OtherParentsYielding(p, "F"))], "F")

\* C15 as stated: the base layer is the parent at position 0, and a field
\* set both in profiles.defaults and by another parent resolves to the
\* other parent's value, the profile's own value winning over both.
C15_AsStated ==
    AfterFinalizeLayering =>
        \A p \in Range(userSettings.profiles) :
            /\ heap[p].parents # << >>
            /\ heap[p].parents[1] = userSettings.baseLayerProfile
            /\ HasField(heap, p, "F") => Resolved(heap, p, "F") = heap[p].F[1]
            /\ ( /\ ~HasField(heap, p, "F")
                 /\ HasField(heap, userSettings.baseLayerProfile, "F")
                 /\ OtherParentsYielding(p, "F") # {} )
               => Resolved(heap, p, "F")
                    = Resolved(heap, heap[p].parents[Least(OtherParentsYielding(p, "F"))], "F")

\* Profile object e of a fragment is no patch of a profile of the index
IsNoPatch(e, index) == e.updates = None \/ e.updates[1] \notin DOMAIN index

\* C16: MergeFragmentsIntoUserProfiles appends, for every valid fragment
\* profile that has no updates GUID or whose updates GUID is not in the
\* user index, and whose GUID is not in it either, a new profile of origin
\* User with that GUID whose only parent is the fragment profile.
C16_NewFragmentProfiles ==
    [][pc = "MergeFragmentsIntoUserProfiles" =>
         \A k \in 1..Len(env.fragments) :
            (env.fragments[k].source \notin ignoredNamespaces
               /\ env.fragments[k].content.kind = "ok") =>
            \A j \in FirstsIn(env.fragments[k].content.list) :
              LET e == env.fragments[k].content.list[j]
              IN  (IsNoPatch(e, userSettings.profilesByGuid)
                     /\ EntryGuid(e) \notin DOMAIN userSettings.profilesByGuid)
                  => \E p \in Range(userSettings'.profiles) \ Range(userSettings.profiles) :
                        /\ heap'[p].origin = "User"
                        /\ Guid(heap', p) = EntryGuid(e)
                        /\ Len(heap'[p].parents) = 1
                        /\ heap'[heap'[p].parents[1]].origin = "Fragment"]_vars

\* The fragment files that are merged and define the color scheme n
FragmentsDefining(n) ==
    {k \in 1..Len(env.fragments) :
        /\ env.fragments[k].source \notin ignoredNamespaces
        /\ env.fragments[k].content.kind = "ok"
        /\ n \in env.fragments[k].content.schemes}

Greatest(S) == CHOOSE k \in S : \A j \in S : j <= k

\* C17: in the global color scheme map after FinalizeLayering a name that
\* the user's settings define maps to the user's definition, also when the
\* inbox defaults define the name; a name that fragments define, and
\* neither the user's settings nor the inbox defaults, maps to the
\* definition of the fragment merged last.
C17_SchemeLayering ==
    AfterFinalizeLayering =>
        /\ env.mode = "Default" =>
              \A n \in UserFile.schemes :
                  /\ n \in DOMAIN gheap[userSettings.globals].colorSchemes
                  /\ gheap[userSettings.globals].colorSchemes[n] = "User"
        /\ \A n \in {"Campbell", "One", "Two"} \ (UserFile.schemes \cup BuiltInFile.schemes) :
              FragmentsDefining(n) # {} =>
                  /\ n \in DOMAIN gheap[userSettings.globals].colorSchemes
                  /\ gheap[userSettings.globals].colorSchemes[n]
                        = env.fragments[Greatest(FragmentsDefining(n))].source

\* The object's activeProfiles are the profiles of its allProfiles that are
\* not hidden, in the same order.
ActiveIsFiltered(c) == c.activeProfiles = ActiveOf(heap, c.allProfiles)

\* C18: in every state the activeProfiles of the loaded object and of its
\* copy are exactly the profiles of allProfiles that are not hidden, in the
\* same relative order: after construction, after Copy() and after the
\* CreateNewProfile and DuplicateProfile calls.
C18_ActiveIsFilteredView ==
    /\ ActiveIsFiltered(settings)
    /\ copied.made => ActiveIsFiltered(copied.settings)

\* The step is the call c.UpdateColorSchemeReferences(oldName, newName) on object t.
IsUpdateOn(t, oldName, newName) ==
    /\ pc \in {"done", "SettingsUI"}
    /\ t \in Targets
    /\ TargetObject(t).loaded
    /\ pc' = "SettingsUI"
    /\ settings' = settings
    /\ copied' = copied
    /\ heap' = UpdatedColorSchemeReferences(heap, TargetObject(t), oldName, newName)

\* The name was oldName and is newName, or was another name and is the same.
Renamed(before, after, oldName, newName) ==
    after = IF before = oldName THEN newName ELSE before

\* Some record of the graph gives p its color scheme name: p or an ancestor
\* for the default appearance; the unfocused appearance or the default
\* appearance it is parented to for the unfocused one.
NamesScheme(h, p) == Owner(h, p, "scheme") # 0

UnfocusedNamesScheme(h, p) ==
    /\ HasUnfocusedAppearance(h, p)
    /\ \/ h[Owner(h, p, "unfocused")].unfocused[1] # None
       \/ NamesScheme(h, Owner(h, p, "unfocused"))

\* C20: after UpdateColorSchemeReferences(oldName, newName) on an object the
\* color scheme name that profiles.defaults and every profile of allProfiles
\* resolves from a record of the graph, for the default appearance and for
\* the unfocused appearance, is newName where it was oldName, explicit or
\* inherited from a parent, and is the same name as before where it was
\* another name.
C20_UpdateColorSchemeReferences ==
    [][\A t \in {"settings", "copied"}, oldName \in OldNames, newName \in NewNames :
          IsUpdateOn(t, oldName, newName) =>
              \A p \in {TargetObject(t).baseLayerProfile} \cup Range(TargetObject(t).allProfiles) :
                  /\ NamesScheme(heap, p) =>
                        Renamed(ColorSchemeName(heap, p), ColorSchemeName(heap', p),
                                oldName, newName)
                  /\ UnfocusedNamesScheme(heap, p) =>
                        Renamed(UnfocusedColorSchemeName(heap, p),
                                UnfocusedColorSchemeName(heap', p), oldName, newName)]_vars

\* The profile objects and the globals objects that object c reaches
ProfileNodes(c) ==
    UNION {SelfAndAncestors(heap, r) : r \in {c.baseLayerProfile} \cup Range(c.allProfiles)}

GlobalsNodes(c) == SelfAndAncestors(gheap, c.globals)

\* The step is a call on the copy: CreateNewProfile or DuplicateProfile
\* extended its list, or UpdateColorSchemeReferences renamed its references.
IsCallOnCopy ==
    /\ copied.made
    /\ pc \in {"done", "SettingsUI"}
    /\ pc' = "SettingsUI"
    /\ \/ copied'.settings.allProfiles # copied.settings.allProfiles
       \/ /\ copied' = copied
          /\ \E oldName \in OldNames, newName \in NewNames :
                heap' = UpdatedColorSchemeReferences(heap, copied.settings, oldName, newName)

\* The step leaves the lists of the original and what its profiles resolve as they were.
OriginalUnchanged ==
    /\ settings' = settings
    /\ gheap' = gheap
    /\ \A p \in {settings.baseLayerProfile} \cup Range(settings.allProfiles) :
          /\ \A f \in InheritableFields : Resolved(heap', p, f) = Resolved(heap, p, f)
          /\ Guid(heap', p) = Guid(heap, p)
          /\ HasUnfocusedAppearance(heap', p) = HasUnfocusedAppearance(heap, p)
          /\ HasUnfocusedAppearance(heap, p) =>
                UnfocusedColorSchemeName(heap', p) = UnfocusedColorSchemeName(heap, p)

DuplicatedSettings == {"F", "scheme", "unfocused"}

\* source has S itself or resolves it from an ancestor whose origin is not
\* ProfilesDefaults.
SetOutsideDefaults(h, source, S) ==
    /\ Owner(h, source, S) # 0
    /\ h[source][S] # None \/ h[Owner(h, source, S)].origin # "ProfilesDefaults"

\* Object d of h2 is a duplicate of source as the rule asks: it is named
\* after source, its only parent is the base layer b, and each setting is
\* explicit, with the value source resolves, exactly when source has it from
\* outside profiles.defaults.
IsDuplicateOf(h, h2, d, b, source) ==
    /\ h2[d].parents = << b >>
    /\ h2[d].name # None
    /\ Len(h2[d].name[1]) > Len(Name(h, source))
    /\ SubSeq(h2[d].name[1], 1, Len(Name(h, source))) = Name(h, source)
    /\ \A S \in DuplicatedSettings :
          h2[d][S] = IF SetOutsideDefaults(h, source, S)
                     THEN (IF S = "unfocused" THEN h[Owner(h, source, S)][S]
                           ELSE Some(Resolved(h, source, S)))
                     ELSE None

\* The step is a DuplicateProfile call on object t: its list grew by a new
\* object named "... ( Copy ... )".
IsDuplicateOn(t) ==
    /\ pc \in {"done", "SettingsUI"}
    /\ pc' = "SettingsUI"
    /\ t \in Targets
    /\ Len(heap') = Len(heap) + 1
    /\ (IF t = "settings" THEN settings'.allProfiles ELSE copied'.settings.allProfiles)
          = Append(TargetObject(t).allProfiles, Len(heap'))
    /\ "Copy" \in Range(Name(heap', Len(heap')))

NewTerminalArgs ==
    {None} \cup
    {Some([profile |-> str, profileIndex |-> i, commandline |-> cmd]) :
        str \in {EmptyStr, NameA, NameB, DefaultName, BraceName,
                 GuidToString("g1"), GuidToString("g3")},
        i \in {None, Some(-1), Some(0), Some(1), Some(4)},
        cmd \in {EmptyStr, << "cmd" >>}}

\* The profile of all that the string names: the first one with that GUID
\* when the string is a GUID, else the first one with that name; 0 if none.
NamedProfile(h, all, str) ==
    IF str = EmptyStr THEN 0
    ELSE IF \E k \in 1..Len(all) : GuidToString(Guid(h, all[k])) = str
    THEN all[Least({k \in 1..Len(all) : GuidToString(Guid(h, all[k])) = str})]
    ELSE IF \E k \in 1..Len(all) : Name(h, all[k]) = str
    THEN all[Least({k \in 1..Len(all) : Name(h, all[k]) = str})]
    ELSE 0

\* The profile the selection rule asks for
SelectedProfile(h, gh, c, args) ==
    IF args # None /\ NamedProfile(h, c.allProfiles, args[1].profile) # 0
    THEN NamedProfile(h, c.allProfiles, args[1].profile)
    ELSE IF /\ args # None
            /\ args[1].profileIndex # None
            /\ args[1].profileIndex[1] >= 0
            /\ args[1].profileIndex[1] < Len(c.activeProfiles)
    THEN c.activeProfiles[args[1].profileIndex[1] + 1]
    ELSE NamedProfile(h, c.allProfiles, GuidToString(gh[c.globals].defaultProfile))

\* C23: on a loaded object GetProfileForArgs returns the profile the
\* arguments' profile string names (GUID or name) when it names one, else
\* the profile at the given index of activeProfiles when the index is in
\* range, else the default profile; the result is never null.
C23_GetProfileForArgs ==
    (settings.loaded /\ pc \in {"done", "SettingsUI"}) =>
        \A args \in NewTerminalArgs, feature \in BOOLEAN :
            /\ GetProfileForArgs(heap, gheap, settings, args, feature) # 0
            /\ GetProfileForArgs(heap, gheap, settings, args, feature)
                  = SelectedProfile(heap, gheap, settings, args)

\* The strings a profile is looked up with
LookupStrings ==
    {EmptyStr, NameA, NameB, DefaultName, BraceName, GuidToString("g1"),
     GuidToString("g2"), GuidToString("g3")}

\* C24: the lookup by name-or-GUID string returns the GUID of the first
\* profile with that GUID when the string is the GUID of a profile, otherwise
\* the GUID of the first profile of allProfiles with that name, also for a
\* 38-character string with a leading brace that is no GUID or the GUID of
\* no profile, and is empty only when neither matches.
C24_LookupByNameOrGuid ==
    (settings.loaded /\ pc = "done") =>
        \A str \in LookupStrings :
            GetProfileGuidByName(heap, settings.allProfiles, str)
              = IF NamedProfile(heap, settings.allProfiles, str) = 0 THEN None
                ELSE Some(Guid(heap, NamedProfile(heap, settings.allProfiles, str)))

RECURSIVE AncestorsWithin(_, _, _)
\* The objects that id reaches over 1 to n parent links
AncestorsWithin(h, id, n) ==
    IF n = 0 THEN {}
    ELSE Range(h[id].parents)
         \cup UNION {AncestorsWithin(h, q, n - 1) : q \in Range(h[id].parents)}

\* C25: in every state, so after every loader stage and after every
\* CreateNewProfile, DuplicateProfile and Copy, no profile object reaches
\* itself through parent links.
C25_ParentGraphAcyclic ==
    \A id \in 1..Len(heap) : id \notin AncestorsWithin(heap, id, Len(heap))

\* A fragment became a parent of a profile that this load synthesized from a
\* generated or inbox profile, the layering is done, and a copy with a
\* duplicated profile exists.
C25_Witness ==
    /\ pc = "SettingsUI"
    /\ copied.made
    /\ Len(copied.settings.allProfiles) > Len(settings.allProfiles)
    /\ \E k \in (userProfileCount + 1)..Len(userSettings.profiles) :
          \E q \in Range(heap[userSettings.profiles[k]].parents) :
              heap[q].origin = "Fragment"
    /\ \E id \in 1..Len(heap) : Cardinality(AncestorsWithin(heap, id, Len(heap))) >= 4

\* The first userProfileCount entries of userSettings.profiles are the
\* profiles of the user's file: one per GUID that the file names, in file order.
UserProfilesFirst ==
    /\ userProfileCount = Cardinality(FirstsIn(UserFile.list))
    /\ userProfileCount <= Len(userSettings.profiles)
    /\ \A i \in 1..userProfileCount :
          /\ heap[userSettings.profiles[i]].origin = "User"
          /\ heap[userSettings.profiles[i]].guid
                = Some(EntryGuid(UserFile.list[Nth(FirstsIn(UserFile.list), i)]))

\* C26: from the end of the parse to the end of the load the first
\* userProfileCount entries of userSettings.profiles are the profiles parsed
\* from the user's file, in file order; a stage only appends to the list;
\* and DisableDeletedProfiles changes neither the deleted nor the hidden
\* flag of one of them and adds none of their GUIDs to the persisted set.
C26_UserProfilesUntouched ==
    /\ []((userSettings.globals # 0 /\ pc # "SettingsLoader") => UserProfilesFirst)
    /\ [][/\ userSettings.globals # 0 =>
                /\ Len(userSettings'.profiles) >= Len(userSettings.profiles)
                /\ SubSeq(userSettings'.profiles, 1, Len(userSettings.profiles))
                      = userSettings.profiles
          /\ pc = "DisableDeletedProfiles" =>
                \A i \in 1..userProfileCount :
                    /\ heap'[userSettings.profiles[i]].deleted
                          = heap[userSettings.profiles[i]].deleted
                    /\ heap'[userSettings.profiles[i]].hidden
                          = heap[userSettings.profiles[i]].hidden
                    /\ Guid(heap, userSettings.profiles[i]) \notin appState' \ appState]_vars

\* No two entries of the list have the same GUID.
UniqueGuids(h, profiles) ==
    \A i, j \in 1..Len(profiles) :
        Guid(h, profiles[i]) = Guid(h, profiles[j]) => i = j

\* C27: after every loader stage no two profiles of userSettings.profiles
\* have the same GUID, and no two profiles of allProfiles of a loaded
\* object, whatever GUIDs the user, inbox, generated and fragment profiles
\* share.
C27_UniqueGuids ==
    /\ UniqueGuids(heap, userSettings.profiles)
    /\ UniqueGuids(heap, settings.allProfiles)
    /\ UniqueGuids(heap, copied.settings.allProfiles)

\* A load ended in which the user's file, the built-in defaults and a new
\* profile of a fragment all name the same GUID.
C27_Witness ==
    /\ Loaded
    /\ env.mode = "LoadAll"
    /\ \E k \in 1..Len(FragmentList) :
          /\ FragmentList[k].updates = None
          /\ EntryGuid(FragmentList[k]) \in GuidsOf(UserFile.list) \cap GuidsOf(BuiltInFile.list)

\* C28: after the parse and after each merge stage, userSettings.profilesByGuid
\* maps each of its GUIDs to an element of userSettings.profiles that has this
\* GUID, and every element of userSettings.profiles is the profile indexed
\* under its own GUID.
C28_IndexConsistent ==
    /\ \A g \in DOMAIN userSettings.profilesByGuid :
          /\ userSettings.profilesByGuid[g] \in Range(userSettings.profiles)
          /\ Guid(heap, userSettings.profilesByGuid[g]) = g
    /\ \A k \in 1..Len(userSettings.profiles) :
          /\ Guid(heap, userSettings.profiles[k]) \in DOMAIN userSettings.profilesByGuid
          /\ userSettings.profilesByGuid[Guid(heap, userSettings.profiles[k])] = userSettings.profiles[k]

\* The step is a CreateNewProfile or DuplicateProfile call on object t: its
\* list grew by one new object.
IsNewProfileOn(t) ==
    /\ pc \in {"done", "SettingsUI"}
    /\ pc' = "SettingsUI"
    /\ t \in Targets
    /\ Len(heap') = Len(heap) + 1
    /\ (IF t = "settings" THEN settings'.allProfiles ELSE copied'.settings.allProfiles)
          = Append(TargetObject(t).allProfiles, Len(heap'))

\* C30: the profile that CreateNewProfile or DuplicateProfile adds has a name
\* that no profile of allProfiles had before the call, whatever names the
\* existing profiles have.
C30_FreshNames ==
    [][\A t \in {"settings", "copied"} :
          IsNewProfileOn(t) =>
              /\ heap'[Len(heap')].name # None
              /\ heap'[Len(heap')].name[1] \notin NamesOf(heap, TargetObject(t).allProfiles)]_vars

\* CreateNewProfile passed over the used "Profile 4" on the loaded object,
\* and DuplicateProfile passed over the used "A (Copy)" on its copy.
C30_Witness ==
    /\ pc = "SettingsUI"
    /\ copied.made
    /\ Len(settings.allProfiles) = 4
    /\ << "Profile", "4" >> \in NamesOf(heap, SubSeq(settings.allProfiles, 1, 3))
    /\ Name(heap, settings.allProfiles[4]) = << "Profile", "5" >>
    /\ Len(copied.settings.allProfiles) = 4
    /\ NameA \o << "(", "Copy", ")" >> \in NamesOf(heap, SubSeq(copied.settings.allProfiles, 1, 3))
    /\ Name(heap, copied.settings.allProfiles[4]) = NameA \o << "(", "Copy", "2", ")" >>

\* The GUIDs of a list of profile objects, in order
GuidSeq(h, profiles) == [k \in 1..Len(profiles) |-> Guid(h, profiles[k])]

\* Two LoadAll runs ended, the second on the settings.json that the first found.
LoadedTwiceFromFile ==
    /\ pc = "done"
    /\ previous.made
    /\ env.mode = "LoadAll"
    /\ previous.env.settingsString # None
    /\ env.settingsString = previous.env.settingsString
    /\ previous.settings.loaded

\* C29: when LoadAll runs twice on the same existing settings.json, the same
\* built-in defaults and the same generator and fragment output, the second
\* load succeeds as the first did and activeProfiles has the same sequence of
\* GUIDs after both.
C29_ReloadStability ==
    LoadedTwiceFromFile =>
        /\ settings.loaded
        /\ GuidSeq(heap, settings.activeProfiles)
              = GuidSeq(previous.heap, previous.settings.activeProfiles)

\* The GUIDs of the profiles of a list that are not deleted, in order
RECURSIVE NonDeletedGuids(_, _)
NonDeletedGuids(h, all) ==
    IF all = << >> THEN << >>
    ELSE IF h[Head(all)].deleted THEN NonDeletedGuids(h, Tail(all))
    ELSE << Guid(h, Head(all)) >> \o NonDeletedGuids(h, Tail(all))

\* The effective value of setting f of profile object id
Effective(h, id, f) ==
    IF f = "unfocused"
    THEN (IF HasUnfocusedAppearance(h, id) THEN Some(UnfocusedColorSchemeName(h, id)) ELSE None)
    ELSE Some(Resolved(h, id, f))

ProfileSettings == {"name", "hidden", "F", "scheme", "unfocused"}

\* The constructor ran on the ToJson() of the object that an earlier
\* construction from previous.env.userJSON made, with the same inboxJSON.
RoundTripDone ==
    /\ pc = "done"
    /\ previous.made
    /\ env.mode = "Default"

\* The profile and global settings that document x sets have the same
\* effective value in object c1 of (h1, gh1) and in object c2 of (h2, gh2).
SameEffectiveValues(x, h1, gh1, c1, h2, gh2, c2) ==
    /\ \A k \in 1..Len(x.list) : \A f \in ProfileSettings :
          (IsValidProfileObject(x.list[k]) /\ x.list[k][f] # None) =>
              LET p1 == FindProfile(h1, c1.allProfiles, EntryGuid(x.list[k]))
                  p2 == FindProfile(h2, c2.allProfiles, EntryGuid(x.list[k]))
              IN  /\ p1 # 0
                  /\ p2 # 0
                  /\ Effective(h1, p1, f) = Effective(h2, p2, f)
    /\ \A f \in ProfileSettings :
          x.defaults[f] # None =>
              Effective(h1, c1.baseLayerProfile, f) = Effective(h2, c2.baseLayerProfile, f)
    /\ x.disabledProfileSources # None =>
          Lookup(gh1, c1.globals, "disabledProfileSources")
            = Lookup(gh2, c2.globals, "disabledProfileSources")
    /\ \A n \in x.schemes :
          /\ n \in SchemesOf(gh1, c1)
          /\ n \in SchemesOf(gh2, c2)
          /\ gh1[c1.globals].colorSchemes[n] = gh2[c2.globals].colorSchemes[n]

====
